---- MODULE Spec2Model ----
(***************************************************************************)
(* Model of dispatcher/data_tracker.py (class DataTracker): the in-process *)
(* state machine that hands out the lines of an input file as work items,  *)
(* accepts their results in any order, writes them to the output file in   *)
(* input order, reissues work that timed out, tombstones work that timed   *)
(* out too often, and recovers from a checkpoint file after a restart.     *)
(*                                                                         *)
(* Files are sequences of one-character strings (bytes), so that byte      *)
(* offsets, readline() and readlines() are computed as the code computes   *)
(* them.  Every public operation runs under self._state_lock and is one    *)
(* action.                                                                 *)
(*                                                                         *)
(* The code uses time.time() only in differences and comparisons of        *)
(* timestamps, so times are kept relative to the present: now is 0, a      *)
(* stored timestamp is a number <= 0, and Tick, the passing of one second, *)
(* lowers every stored timestamp by one.  A timestamp is not lowered below *)
(* the point from which every test the code makes on it stays the same.    *)
(***************************************************************************)
EXTENDS Integers, Sequences, FiniteSets, TLC

\* ------------------------------------------------------------------ bounds
MaxLines == 2        \* input files have at most this many lines
MaxAge == 3          \* issue times older than this are held as this old
MaxReissues == 1     \* reissues in a run when max_retries is -1
MaxBatchSize == 2    \* largest batch_size asked of get_work_batch
MaxCompletions == 1  \* largest batch given to complete_work_batch
MaxRestarts == 1     \* how often the process is started again
MaxThreads == 2      \* threads calling the public methods
MaxRequests == 2     \* longest list of requests a task generator yields
MaxYields == 2       \* how often a task generator yields
MaxPolls == 3        \* calls of get_work by one client
MaxWorkers == 2      \* workers that each hold at most one batch

\* ----------------------------------------------- constructor arguments
work_timeout == 1
MaxRetriesChoices == {-1, 0, 1}

\* ------------------------------------------------------------ byte strings
NL == "\n"
Whitespace == {" ", "\n", "\t", "\r"}

Min(S) == CHOOSE x \in S : \A y \in S : x <= y

\* Index of the last byte of the line that starts after byte offset pos:
\* the first newline after pos, or the end of the file.
EndOfLine(file, pos) ==
  LET nls == {i \in (pos + 1)..Len(file) : file[i] = NL}
  IN  IF nls = {} THEN Len(file) ELSE Min(nls)

\* file.readline() at offset pos: the bytes up to and including the newline.
ReadLine(file, pos) == SubSeq(file, pos + 1, EndOfLine(file, pos))

\* len(file.readlines()) at offset pos.
RECURSIVE CountLines(_, _)
CountLines(file, pos) ==
  IF pos >= Len(file) THEN 0
  ELSE 1 + CountLines(file, EndOfLine(file, pos))

\* The lines of a file as readlines() returns them, terminators removed.
RECURSIVE RStripNL(_)
RStripNL(line) ==
  IF line # <<>> /\ line[Len(line)] = NL
    THEN RStripNL(SubSeq(line, 1, Len(line) - 1))
    ELSE line

RECURSIVE Lines(_, _)
Lines(file, pos) ==
  IF pos >= Len(file) THEN <<>>
  ELSE <<RStripNL(ReadLine(file, pos))>> \o Lines(file, EndOfLine(file, pos))

\* str.strip()
RECURSIVE LStrip(_)
LStrip(str) ==
  IF str # <<>> /\ str[1] \in Whitespace THEN LStrip(Tail(str)) ELSE str

RECURSIVE RStrip(_)
RStrip(str) ==
  IF str # <<>> /\ str[Len(str)] \in Whitespace
    THEN RStrip(SubSeq(str, 1, Len(str) - 1))
    ELSE str

Strip(str) == LStrip(RStrip(str))

\* str(n) for n >= 0
DecimalDigits == <<"0", "1", "2", "3", "4", "5", "6", "7", "8", "9">>

RECURSIVE IntToStr(_)
IntToStr(n) ==
  IF n < 10 THEN <<DecimalDigits[n + 1]>>
  ELSE IntToStr(n \div 10) \o <<DecimalDigits[(n % 10) + 1]>>

\* The body of a JSON string literal as json.dumps writes it (the model's
\* alphabet has no other control or non-ASCII characters).
RECURSIVE JsonEscape(_)
JsonEscape(str) ==
  IF str = <<>> THEN <<>>
  ELSE (CASE str[1] = "\"" -> <<"\\", "\"">>
          [] str[1] = "\\" -> <<"\\", "\\">>
          [] str[1] = "\n" -> <<"\\", "n">>
          [] str[1] = "\t" -> <<"\\", "t">>
          [] str[1] = "\r" -> <<"\\", "r">>
          [] OTHER -> <<str[1]>>) \o JsonEscape(Tail(str))

TombstoneHead ==
  << "{","\"","_","_","E","R","R","O","R","_","_","\"",":"," ","{","\"","e",
     "r","r","o","r","\"",":"," ","\"","m","a","x","_","r","e","t","r","i",
     "e","s","_","e","x","c","e","e","d","e","d","\"",","," ","\"","w","o",
     "r","k","_","i","d","\"",":"," " >>

TombstoneMid ==
  << ","," ","\"","o","r","i","g","i","n","a","l","_","c","o","n","t","e",
     "n","t","\"",":"," ","\"" >>

TombstoneTail == << "\"","}","}" >>

\* json.dumps({"__ERROR__": {"error": "max_retries_exceeded",
\*             "work_id": work_id, "original_content": content.strip()}})
Tombstone(work_id, content) ==
  TombstoneHead \o IntToStr(work_id) \o TombstoneMid
    \o JsonEscape(Strip(content)) \o TombstoneTail

IsTombstone(result) ==
  /\ Len(result) > Len(TombstoneHead)
  /\ SubSeq(result, 1, Len(TombstoneHead)) = TombstoneHead

\* ------------------------------------------------------------- the inputs
\* Contents of the input lines: different lengths, a leading blank (which
\* strip() removes in a tombstone) and an empty line.
LineTable == << <<" ", "a">>, <<>>, <<"b">> >>

LineAt(i) == LineTable[(i % Len(LineTable)) + 1]

\* An input file of n lines; the last line has a terminator iff nl.
RECURSIVE InputOf(_, _)
InputOf(n, nl) ==
  IF n = 0 THEN <<>>
  ELSE InputOf(n - 1, TRUE) \o LineAt(n - 1) \o (IF nl THEN <<NL>> ELSE <<>>)

\* Files of 1..MaxLines terminated lines, and one whose last line is not.
InputFiles == {InputOf(n, TRUE) : n \in 1..MaxLines} \cup {InputOf(1, FALSE)}

\* Result strings that workers submit (newline-free, of two lengths).
Results == {<<"X">>, <<"Y", "Y">>}

\* Work ids that workers submit: for shorter inputs, or before the line is
\* read, they include ids that are not issued.
WorkIds == 0..(MaxLines - 1)

\* None, the value get_work_batch returns instead of an empty batch.
None == <<>>


\* ---------------------------------------------------- task generators
\* What a task generator does when it is started or resumed: it yields a
\* Request, a list of Requests or None, it returns a dict or nothing, or it
\* raises TaskFailed(message, error_type).
Step(op, kind, items, value, error_type, message) ==
  [op |-> op, kind |-> kind, items |-> items, value |-> value,
   error_type |-> error_type, message |-> message]

\* The generator did not run.
NoStep == Step("", "", <<>>, None, "", "")

\* The i-th Request of the n-th yield of a generator.
Req(n, i) == <<n, i>>

\* {}
EmptyDict == [k \in {} |-> 0]

Dicts == {EmptyDict, [status |-> "immediate_return"]}
ErrorTypes == {"task_logic_error", "bad_input"}
Messages == {"immediate failure from test"}
Responses == {"p1", "p2"}
TaskArgs ==
  {[data |-> "d1", context |-> "c1"], [data |-> "d2", context |-> "c2"]}

Yields(n) ==
  {Step("yield", "request", <<Req(n, 1)>>, None, "", "")}
    \cup {Step("yield", "list", [i \in 1..k |-> Req(n, i)], None, "", "") :
            k \in 0..MaxRequests}
    \cup {Step("yield", "none", <<>>, None, "", "")}

Returns ==
  {Step("return", "", <<>>, v, "", "") :
     v \in {None} \cup {<<d>> : d \in Dicts}}

Raises ==
  {Step("raise", "", <<>>, None, e, m) : e \in ErrorTypes, m \in Messages}

\* ------------------------------------------------------ HTTP exchanges
\* What requests.get(url) does: it raises error, or it returns a response
\* with a status code and a body, the body being <<the JSON value>> or
\* None if it is not JSON.
Wire(error, status_code, body) ==
  [error |-> error, status_code |-> status_code, body |-> body]

\* No request was made.
NoWire == Wire("", 0, None)

\* requests.ConnectTimeout is a requests.ConnectionError, requests.ReadTimeout
\* is not.
RequestErrors == {"ConnectionError", "ConnectTimeout", "ReadTimeout"}
ConnectionErrors == {"ConnectionError", "ConnectTimeout"}

StatusCodes == {200, 204, 400, 404, 500, 503}

Bodies ==
  {None, <<[status |-> "OK", work_id |-> 0, content |-> "a"]>>,
   <<[status |-> "retry"]>>}

Wires ==
  {Wire(e, 0, None) : e \in RequestErrors}
    \cup {Wire("", c, b) : c \in StatusCodes, b \in Bodies}

\* ---------------------------------------------------------------- state
VARIABLES
  input_file,              \* bytes of the file at infile_path
  outfile,                 \* bytes of the file at outfile_path
  checkpoint_file,         \* <<>> if absent, else <<the JSON object>>
  checkpoint_tmp,          \* the file at checkpoint_path + ".tmp", likewise
  max_retries,             \* self.max_retries
  checkpoint_interval,     \* self.checkpoint_interval
  pc,                      \* "running", "closed" (after close) or "killed"
  restarts,                \* constructions of a DataTracker after the first
  last_processed_work_id,  \* self.last_processed_work_id
  next_work_id,            \* self.next_work_id
  input_offset,            \* self.input_offset
  infile_pos,              \* self.infile.tell()
  last_checkpoint_time,    \* self.last_checkpoint_time
  expired_reissues,        \* self.expired_reissues
  issued,                  \* self.issued
  issued_heap,             \* self.issued_heap, in the order heappop yields
  pending_write,           \* self.pending_write
  ret,                     \* what the last call returned (a batch or None)
  handed,                  \* history: work_id -> times handed out, this run
  issued_at,               \* history: work_id -> time of its latest issue
  completed,               \* history: work_id -> the first result submitted
                           \*   for it after it was issued in this run
  tombstoned,              \* history: work_ids tombstoned in this run
  lock,                    \* self._state_lock: the thread holding it, or 0
  at,                      \* thread -> the method it is in, or "idle"
  calls,                   \* history: get_work_batch calls made, up to MaxLines
  asked,                   \* history: the sum of their batch_size, likewise
  task,                    \* the GeneratorTask object, None before it exists
  raised,                  \* the exception the last call let out, or ""
  got,                     \* what the last get_next_request returned
  sent,                    \* what the generator received at its last resume
  call,                    \* history: the last method called on the task and
                           \*   what the generator did when it ran in it
  given,                   \* history: the arguments of the constructor
  wire,                    \* what requests.get did in the last get_work
  reply,                   \* what the last get_work returned or raised
  replies,                 \* history: the outcomes of the get_work calls
  holding,                 \* worker -> the work ids of the batch it holds
  handed_ever              \* history: work_id -> times handed out, all runs

config == <<input_file, max_retries, checkpoint_interval>>

disk == <<outfile, checkpoint_file, checkpoint_tmp>>

memory ==
  <<last_processed_work_id, next_work_id, input_offset, infile_pos,
    last_checkpoint_time, expired_reissues, issued, issued_heap,
    pending_write>>

history == <<ret, handed, issued_at, completed, tombstoned>>

threads == <<lock, at>>

counters == <<calls, asked>>

tasks == <<task, raised, got, sent, call, given>>

clients == <<wire, reply, replies>>

workers == <<holding>>

tallies == <<handed_ever>>

\* What the methods of DataTracker never touch.
apart == <<counters, tasks, clients, workers, tallies>>

vars == <<config, disk, pc, restarts, memory, history, threads, apart>>

\* The DataTracker object and its files as one record, so that the methods
\* below are functions from records to records.
Self ==
  [ outfile |-> outfile,
    checkpoint_file |-> checkpoint_file,
    checkpoint_tmp |-> checkpoint_tmp,
    last_processed_work_id |-> last_processed_work_id,
    next_work_id |-> next_work_id,
    input_offset |-> input_offset,
    infile_pos |-> infile_pos,
    last_checkpoint_time |-> last_checkpoint_time,
    expired_reissues |-> expired_reissues,
    issued |-> issued,
    issued_heap |-> issued_heap,
    pending_write |-> pending_write,
    handed |-> handed,
    issued_at |-> issued_at,
    completed |-> completed,
    tombstoned |-> tombstoned ]

Becomes(s) ==
  /\ outfile' = s.outfile
  /\ checkpoint_file' = s.checkpoint_file
  /\ checkpoint_tmp' = s.checkpoint_tmp
  /\ last_processed_work_id' = s.last_processed_work_id
  /\ next_work_id' = s.next_work_id
  /\ input_offset' = s.input_offset
  /\ infile_pos' = s.infile_pos
  /\ last_checkpoint_time' = s.last_checkpoint_time
  /\ expired_reissues' = s.expired_reissues
  /\ issued' = s.issued
  /\ issued_heap' = s.issued_heap
  /\ pending_write' = s.pending_write
  /\ handed' = s.handed
  /\ issued_at' = s.issued_at
  /\ completed' = s.completed
  /\ tombstoned' = s.tombstoned

\* A call F(x): as Python does, the argument is evaluated, once, before the
\* body of F runs.  (x is a tuple when F takes several arguments.)
Call(F(_), x) == CHOOSE y \in {F(v) : v \in {x}} : TRUE

\* dict helpers
Put(d, k, v) == [x \in DOMAIN d \cup {k} |-> IF x = k THEN v ELSE d[x]]

Del(d, k) == [x \in DOMAIN d \ {k} |-> d[x]]

\* ------------------------------------------------------------ the heap
\* Variant: the heap is keyed by work_id alone.
HeapLessById(a, b) == a[2] < b[2]

\* Variant: of two entries with one timestamp the higher id comes first.
HeapLessHighIdFirst(a, b) == a[1] < b[1] \/ (a[1] = b[1] /\ a[2] > b[2])

\* Tuples (timestamp, work_id) compare lexicographically.
HeapLess(a, b) == a[1] < b[1] \/ (a[1] = b[1] /\ a[2] < b[2])

\* heapq.heappush: heap is kept as the sequence heappop would yield.
RECURSIVE HeapPush(_, _)
HeapPush(heap, entry) ==
  IF heap = <<>> THEN <<entry>>
  ELSE IF HeapLess(entry, Head(heap)) THEN <<entry>> \o heap
  ELSE <<Head(heap)>> \o Call(LAMBDA rest : HeapPush(rest, entry), Tail(heap))

\* heapq.heappop leaves the rest; heap[0] is Head(heap).
HeapPop(heap) == Tail(heap)

\* ------------------------------------------------------------ the clock
\* time.time(), the origin of the time scale
now == 0

Max(a, b) == IF a >= b THEN a ELSE b

\* A timestamp one second later, held exactly down to -floor.
Older(ts, floor) == Max(ts - 1, 0 - floor)

\* ------------------------------------------------- _write_checkpoint
\* The two paths, and the files of s at them.
checkpoint_path == <<"checkpoint">>

FileAt(s, path) ==
  IF path = checkpoint_path THEN s.checkpoint_file ELSE s.checkpoint_tmp

WriteFile(s, path, content) ==
  IF path = checkpoint_path
    THEN [s EXCEPT !.checkpoint_file = content]
    ELSE [s EXCEPT !.checkpoint_tmp = content]

\* os.rename(src, dst) replaces dst; renaming a file to itself does nothing.
OsRename(s, src, dst) ==
  IF src = dst THEN s
  ELSE Call(LAMBDA moved : WriteFile(moved, src, <<>>),
            WriteFile(s, dst, FileAt(s, src)))

\* Variant: the checkpoint is written in place.
TempPathInPlace(path) == path

\* "temp_path = self.checkpoint_path + ".tmp""
TempPath(path) == path \o <<".tmp">>

\* The JSON text of cp of which the file holds nothing yet ("none", the
\* file is empty), a proper prefix ("part") or everything ("all"). A file
\* that something else has overwritten can also hold bytes that are not
\* UTF-8 text ("garbled").
JsonDump(s, bytes) ==
  [ last_processed_work_id |-> s.last_processed_work_id,
    input_offset |-> s.input_offset,
    output_offset |-> Len(s.outfile),
    bytes |-> bytes ]

\* The steps of _write_checkpoint, in order: open(temp_path, "w") creates
\* or truncates the file; json.dump and f.flush() hand the text to the
\* file, where it arrives in pieces; after os.fsync all of it is there;
\* os.rename commits.
CheckpointSteps == <<"open", "dump", "fsync", "rename">>

\* The files when _write_checkpoint has come as far as step number upto.
WriteCheckpointUpTo(s, upto) ==
  LET temp_path == TempPath(checkpoint_path)
      step == CheckpointSteps[upto]
  IN  IF step = "open" THEN WriteFile(s, temp_path, <<JsonDump(s, "none")>>)
      ELSE IF step = "dump"
        THEN WriteFile(s, temp_path, <<JsonDump(s, "part")>>)
      ELSE IF step = "fsync"
        THEN WriteFile(s, temp_path, <<JsonDump(s, "all")>>)
      ELSE Call(LAMBDA synced : OsRename(synced, temp_path, checkpoint_path),
                WriteFile(s, temp_path, <<JsonDump(s, "all")>>))

WriteCheckpoint(s) == WriteCheckpointUpTo(s, Len(CheckpointSteps))

\* --------------------------------------------- _flush_pending_writes
\* The while loop: pops the results of last_processed_work_id + 1, + 2, ...
\* from pending_write and collects their lines in writes.
\* Variant: flushes the lowest pending result even across a gap.
RECURSIVE FlushLoopAcrossGap(_, _)
FlushLoopAcrossGap(s, writes) ==
  IF DOMAIN s.pending_write # {}
    THEN LET next_id == Min(DOMAIN s.pending_write)
         IN  Call(LAMBDA a : FlushLoopAcrossGap(a[1], a[2]),
               << [s EXCEPT !.pending_write = Del(@, next_id),
                            !.last_processed_work_id = next_id,
                            !.input_offset = s.issued[next_id].input_offset,
                            !.issued = Del(@, next_id),
                            !.issued_at = Del(@, next_id)],
                  writes \o s.pending_write[next_id] \o <<NL>> >>)
    ELSE [s |-> s, writes |-> writes]

\* Variant: "if" in place of "while", one result flushed per call.
FlushLoopOnce(s, writes) ==
  LET next_id == s.last_processed_work_id + 1
  IN  IF next_id \in DOMAIN s.pending_write
        THEN [s |-> [s EXCEPT !.pending_write = Del(@, next_id),
                              !.last_processed_work_id = next_id,
                              !.input_offset = s.issued[next_id].input_offset,
                              !.issued = Del(@, next_id),
                              !.issued_at = Del(@, next_id)],
              writes |-> writes \o s.pending_write[next_id] \o <<NL>>]
        ELSE [s |-> s, writes |-> writes]

\* Variant: "del self.issued[next_id]" is missing.
RECURSIVE FlushLoopKeepsIssued(_, _)
FlushLoopKeepsIssued(s, writes) ==
  LET next_id == s.last_processed_work_id + 1
  IN  IF next_id \in DOMAIN s.pending_write
        THEN Call(LAMBDA a : FlushLoopKeepsIssued(a[1], a[2]),
               << [s EXCEPT !.pending_write = Del(@, next_id),
                            !.last_processed_work_id = next_id,
                            !.input_offset = s.issued[next_id].input_offset,
                            !.issued_at = Del(@, next_id)],
                  writes \o s.pending_write[next_id] \o <<NL>> >>)
        ELSE [s |-> s, writes |-> writes]

RECURSIVE FlushLoop(_, _)
FlushLoop(s, writes) ==
  LET next_id == s.last_processed_work_id + 1
  IN  IF next_id \in DOMAIN s.pending_write
        THEN Call(LAMBDA a : FlushLoop(a[1], a[2]),
               << [s EXCEPT !.pending_write = Del(@, next_id),
                            !.last_processed_work_id = next_id,
                            !.input_offset = s.issued[next_id].input_offset,
                            !.issued = Del(@, next_id),
                            !.issued_at = Del(@, next_id)],
                  writes \o s.pending_write[next_id] \o <<NL>> >>)
        ELSE [s |-> s, writes |-> writes]

FlushPendingWrites(s) ==
  Call(LAMBDA r : [r.s EXCEPT !.outfile = @ \o r.writes], FlushLoop(s, <<>>))

\* ---------------------------------------------- _complete_work_batch
\* Variant: the pending_write test is missing.
IsDuplicateWrittenOnly(s, work_id) == work_id <= s.last_processed_work_id

IsDuplicate(s, work_id) ==
  work_id <= s.last_processed_work_id \/ work_id \in DOMAIN s.pending_write

\* Variant: a result for an item that was reissued is not accepted.
NotIssuedOrReissued(s, work_id) ==
  work_id \notin DOMAIN s.issued \/ s.issued[work_id].retry_count > 0

\* Variant: an id beyond the next one to write is taken as issued.
NotIssuedUpToHead(s, work_id) ==
  work_id \notin DOMAIN s.issued /\ work_id <= s.last_processed_work_id + 1

NotIssued(s, work_id) == work_id \notin DOMAIN s.issued

\* History only: the first result submitted for a work_id of this run.
NoteCompletion(s, work_id, result) ==
  IF work_id \in DOMAIN s.handed /\ work_id \notin DOMAIN s.completed
    THEN [s EXCEPT !.completed = Put(@, work_id, result)]
    ELSE s

\* One iteration of "for work_id, result in batch"; a discarded completion
\* is only logged with logging.warning.
Store(s, work_id, result) ==
  IF IsDuplicate(s, work_id) THEN s
  ELSE IF NotIssued(s, work_id) THEN s
  ELSE [s EXCEPT !.pending_write = Put(@, work_id, result)]

RECURSIVE StoreAll(_, _)
StoreAll(s, batch) ==
  IF batch = <<>> THEN s
  ELSE Call(LAMBDA stored : StoreAll(stored, Tail(batch)),
            Call(LAMBDA noted : Store(noted, batch[1][1], batch[1][2]),
                 NoteCompletion(s, batch[1][1], batch[1][2])))

\* Variant: a checkpoint is due at every completion.
CheckpointDueAlways(s, t, interval) == t >= s.last_checkpoint_time

CheckpointDue(s, t, interval) == t - s.last_checkpoint_time >= interval

\* The body after the loop: flush, then checkpoint if one is due.
FlushAndCheckpoint(stored, t) ==
  Call(LAMBDA flushed :
         IF CheckpointDue(flushed, t, checkpoint_interval)
           THEN [WriteCheckpoint(flushed) EXCEPT !.last_checkpoint_time = t]
           ELSE flushed,
       FlushPendingWrites(stored))

CompleteWorkBatchInternal(s, batch, t) ==
  Call(LAMBDA stored : FlushAndCheckpoint(stored, t), StoreAll(s, batch))

\* ------------------------------------------------- _track_issued_work
NoWorkId == -1     \* the default work_id=None

\* Variant: "self.next_work_id += 1" is missing.
TrackIssuedWorkSameId(s, when, content, offset, work_id) ==
  LET id == IF work_id = NoWorkId THEN s.next_work_id ELSE work_id
      tracked ==
        IF work_id = NoWorkId
          THEN [s EXCEPT !.issued = Put(@, id, [content |-> content,
                                                input_offset |-> offset,
                                                retry_count |-> 0])]
          ELSE [s EXCEPT !.expired_reissues = @ + 1,
                         !.issued[id].retry_count = @ + 1]
  IN  [s |-> [tracked EXCEPT
                !.issued_heap = Call(LAMBDA heap : HeapPush(heap, <<when, id>>),
                                     @),
                !.handed = Put(@, id, IF id \in DOMAIN @ THEN @[id] + 1 ELSE 1),
                !.issued_at = Put(@, id, when)],
       item |-> <<id, content>>]

\* Variant: new work gets its id but no entry in the issued map.
TrackIssuedWorkUntracked(s, when, content, offset, work_id) ==
  LET id == IF work_id = NoWorkId THEN s.next_work_id ELSE work_id
      tracked ==
        IF work_id = NoWorkId
          THEN [s EXCEPT !.next_work_id = @ + 1]
          ELSE [s EXCEPT !.expired_reissues = @ + 1,
                         !.issued[id].retry_count = @ + 1]
  IN  [s |-> [tracked EXCEPT
                !.issued_heap = Call(LAMBDA heap : HeapPush(heap, <<when, id>>),
                                     @),
                !.handed = Put(@, id, IF id \in DOMAIN @ THEN @[id] + 1 ELSE 1),
                !.issued_at = Put(@, id, when)],
       item |-> <<id, content>>]

\* Variant: every issue is counted, the first one too.
TrackIssuedWorkAllCounted(s, when, content, offset, work_id) ==
  LET id == IF work_id = NoWorkId THEN s.next_work_id ELSE work_id
      tracked ==
        IF work_id = NoWorkId
          THEN [s EXCEPT !.next_work_id = @ + 1,
                         !.expired_reissues = @ + 1,
                         !.issued = Put(@, id, [content |-> content,
                                                input_offset |-> offset,
                                                retry_count |-> 0])]
          ELSE [s EXCEPT !.expired_reissues = @ + 1,
                         !.issued[id].retry_count = @ + 1]
  IN  [s |-> [tracked EXCEPT
                !.issued_heap = Call(LAMBDA heap : HeapPush(heap, <<when, id>>),
                                     @),
                !.handed = Put(@, id, IF id \in DOMAIN @ THEN @[id] + 1 ELSE 1),
                !.issued_at = Put(@, id, when)],
       item |-> <<id, content>>]

\* Variant: reissued work is not pushed on the heap again.
TrackIssuedWorkNotPushed(s, when, content, offset, work_id) ==
  LET id == IF work_id = NoWorkId THEN s.next_work_id ELSE work_id
      tracked ==
        IF work_id = NoWorkId
          THEN [s EXCEPT !.next_work_id = @ + 1,
                         !.issued = Put(@, id, [content |-> content,
                                                input_offset |-> offset,
                                                retry_count |-> 0]),
                         !.issued_heap =
                            Call(LAMBDA heap : HeapPush(heap, <<when, id>>), @)]
          ELSE [s EXCEPT !.expired_reissues = @ + 1,
                         !.issued[id].retry_count = @ + 1]
  IN  [s |-> [tracked EXCEPT
                !.handed = Put(@, id, IF id \in DOMAIN @ THEN @[id] + 1 ELSE 1),
                !.issued_at = Put(@, id, when)],
       item |-> <<id, content>>]

TrackIssuedWork(s, when, content, offset, work_id) ==
  LET id == IF work_id = NoWorkId THEN s.next_work_id ELSE work_id
      tracked ==
        IF work_id = NoWorkId
          THEN [s EXCEPT !.next_work_id = @ + 1,
                         !.issued = Put(@, id, [content |-> content,
                                                input_offset |-> offset,
                                                retry_count |-> 0])]
          ELSE [s EXCEPT !.expired_reissues = @ + 1,
                         !.issued[id].retry_count = @ + 1]
  IN  [s |-> [tracked EXCEPT
                !.issued_heap = Call(LAMBDA heap : HeapPush(heap, <<when, id>>),
                                     @),
                !.handed = Put(@, id, IF id \in DOMAIN @ THEN @[id] + 1 ELSE 1),
                !.issued_at = Put(@, id, when)],
       item |-> <<id, content>>]

\* ----------------------------------------------------- get_work_batch
\* Variant: the pending_write test is missing.
IsStaleIssuedOnly(s, work_id) == work_id \notin DOMAIN s.issued

\* "work_id not in self.issued or work_id in self.pending_write"
IsStale(s, work_id) ==
  work_id \notin DOMAIN s.issued \/ work_id \in DOMAIN s.pending_write

\* Variant: ">=" in place of ">".
ExpiredAtTimeout(heap_ts, t) == t - work_timeout >= heap_ts

\* "now - self.work_timeout > heap_ts"
Expired(heap_ts, t) == t - work_timeout > heap_ts

\* Variant: ">" in place of ">=".
ExceededRetriesLate(retry_count, cap) == cap # -1 /\ retry_count > cap

\* "self.max_retries != -1 and retry_count >= self.max_retries"
ExceededRetries(retry_count, cap) == cap # -1 /\ retry_count >= cap

\* Variant: the item that exceeded max_retries is dropped from the heap and
\* not completed.
TombstoneDropped(s, work_id, content, t) == s

\* Variant: the tombstone is stored but the prefix is not flushed.
TombstoneNotFlushed(s, work_id, content, t) ==
  StoreAll([s EXCEPT !.tombstoned = @ \cup {work_id}],
           << <<work_id, Tombstone(work_id, content)>> >>)

\* Variant: the tombstone is appended to the output at once.
TombstoneWrittenAtOnce(s, work_id, content, t) ==
  [s EXCEPT !.tombstoned = @ \cup {work_id},
            !.outfile = @ \o Tombstone(work_id, content) \o <<NL>>,
            !.issued = Del(@, work_id),
            !.issued_at = Del(@, work_id)]

\* The branch of an item that exceeded max_retries: it is completed with
\* a tombstone through _complete_work_batch.
TombstoneWork(s, work_id, content, t) ==
  Call(LAMBDA a : CompleteWorkBatchInternal(a[1], a[2], t),
       << [s EXCEPT !.tombstoned = @ \cup {work_id}],
          << <<work_id, Tombstone(work_id, content)>> >> >>)

\* The first while loop: reissue or tombstone expired work.
RECURSIVE ReissuePass(_, _, _, _, _)
ReissuePass(s, batch, batch_size, t, cap) ==
  IF s.issued_heap = <<>> \/ Len(batch) >= batch_size
    THEN [s |-> s, batch |-> batch]
  ELSE
    LET heap_ts == Head(s.issued_heap)[1]
        work_id == Head(s.issued_heap)[2]
        popped == [s EXCEPT !.issued_heap = HeapPop(@)]
    IN  IF IsStale(s, work_id)
          THEN Call(LAMBDA p : ReissuePass(p, batch, batch_size, t, cap),
                    popped)
        ELSE IF Expired(heap_ts, t)
          THEN LET entry == s.issued[work_id]
               IN  IF ExceededRetries(entry.retry_count, cap)
                     THEN Call(LAMBDA after :
                                 ReissuePass(after, batch, batch_size,
                                             t, cap),
                               Call(LAMBDA p :
                                      TombstoneWork(p, work_id, entry.content,
                                                    t),
                                    popped))
                     ELSE Call(LAMBDA r :
                                 ReissuePass(r.s, Append(batch, r.item),
                                             batch_size, t, cap),
                               Call(LAMBDA p :
                                      TrackIssuedWork(p, t, entry.content,
                                                      entry.input_offset,
                                                      work_id),
                                    popped))
        ELSE [s |-> s, batch |-> batch]

\* The second while loop: read new lines of the input.
RECURSIVE FreshPass(_, _, _, _, _)
FreshPass(s, batch, batch_size, t, file) ==
  IF Len(batch) >= batch_size THEN [s |-> s, batch |-> batch]
  ELSE
    LET line == ReadLine(file, s.infile_pos)
    IN  IF line = <<>> THEN [s |-> s, batch |-> batch]
        ELSE Call(LAMBDA r :
                    FreshPass(r.s, Append(batch, r.item), batch_size, t, file),
                  Call(LAMBDA read :
                         TrackIssuedWork(read, t, RStripNL(line),
                                         read.infile_pos, NoWorkId),
                       [s EXCEPT !.infile_pos = @ + Len(line)]))

\* Variant: "return batch", whatever the batch.
ReturnValueAlwaysBatch(batch) == <<batch>>

\* "if batch: return batch" and "return None": the value returned, None or
\* <<the list>>.
ReturnValue(batch) == IF batch # <<>> THEN <<batch>> ELSE None

\* Variant: the second loop reads one line more than asked for.
GetWorkBatchResultOneMore(s, batch_size, t, cap, file) ==
  Call(LAMBDA done : [s |-> done.s, batch |-> done.batch,
                      returned |-> ReturnValue(done.batch)],
       Call(LAMBDA reissued :
              FreshPass(reissued.s, reissued.batch, batch_size + 1, t, file),
            ReissuePass(s, <<>>, batch_size, t, cap)))

\* The state get_work_batch leaves, the batch it has built and the value it
\* returns.
GetWorkBatchResult(s, batch_size, t, cap, file) ==
  Call(LAMBDA done : [s |-> done.s, batch |-> done.batch,
                      returned |-> ReturnValue(done.batch)],
       Call(LAMBDA reissued :
              FreshPass(reissued.s, reissued.batch, batch_size, t, file),
            ReissuePass(s, <<>>, batch_size, t, cap)))

\* ------------------------------------------------ all_work_complete
\* Variant: work still in flight counts as work that is not complete.
AllWorkCompleteNothingIssued(s, file) ==
  LET remaining == Len(file) - s.infile_pos
  IN  remaining = 0 /\ Cardinality(DOMAIN s.pending_write) = 0
                    /\ Cardinality(DOMAIN s.issued) = 0

\* "remaining = os.stat(self.infile_path).st_size - self.infile.tell()"
AllWorkComplete(s, file) ==
  LET remaining == Len(file) - s.infile_pos
  IN  remaining = 0 /\ Cardinality(DOMAIN s.pending_write) = 0

\* ------------------------------------------------------- __init__
\* The fields as __init__ sets them before _load_checkpoint.
Constructed(out, cp, tmp, t) ==
  [ outfile |-> out,
    checkpoint_file |-> cp,
    checkpoint_tmp |-> tmp,
    last_processed_work_id |-> -1,
    next_work_id |-> 0,
    input_offset |-> 0,
    infile_pos |-> 0,
    last_checkpoint_time |-> t,
    expired_reissues |-> 0,
    issued |-> EmptyDict,
    issued_heap |-> <<>>,
    pending_write |-> EmptyDict,
    handed |-> EmptyDict,
    issued_at |-> EmptyDict,
    completed |-> EmptyDict,
    tombstoned |-> {} ]

\* "for _ in range(extra_count): self.infile.readline()"
RECURSIVE SkipLines(_, _, _)
SkipLines(file, pos, count) ==
  IF count = 0 THEN pos
  ELSE SkipLines(file, pos + Len(ReadLine(file, pos)), count - 1)

\* "os.path.exists(...) and os.path.getsize(...) > 0"
HasCheckpoint(s) ==
  s.checkpoint_file # <<>> /\ s.checkpoint_file[1].bytes # "none"

\* "open(self.checkpoint_path, "r")" and the f.read() inside json.load:
\* bytes that are not text of the default encoding raise
\* UnicodeDecodeError.
Decodes(text) == text.bytes # "garbled"

\* UnicodeDecodeError is not a JSONDecodeError: "except
\* json.JSONDecodeError" lets it pass and __init__ raises it.
LoadCheckpointRaises(s) ==
  HasCheckpoint(s) /\ ~Decodes(s.checkpoint_file[1])

\* json.load(f); a text that is cut short raises JSONDecodeError, then
\* "cp = {}" and every cp.get returns its default.
JsonLoad(text) ==
  IF text.bytes = "all" THEN text
  ELSE [ last_processed_work_id |-> -1, input_offset |-> 0,
         output_offset |-> 0, bytes |-> text.bytes ]

LoadCheckpoint(s, file) ==
  IF HasCheckpoint(s)
    THEN LET cp == JsonLoad(s.checkpoint_file[1])
             extra_count == CountLines(s.outfile, cp.output_offset)
             last == cp.last_processed_work_id + extra_count
         IN  [s EXCEPT !.last_processed_work_id = last,
                       !.input_offset = cp.input_offset,
                       !.infile_pos = SkipLines(file, cp.input_offset,
                                                extra_count),
                       !.next_work_id = last + 1]
    ELSE [s EXCEPT !.last_processed_work_id = -1,
                   !.next_work_id = 0]

\* ------------------------------------------------------------- actions
InitOn(files, retries, interval) ==
  /\ input_file \in files
  /\ max_retries \in retries
  /\ checkpoint_interval = interval
  /\ pc = "running"
  /\ restarts = 0
  /\ ret = None
  /\ lock = 0
  /\ at = [t \in 1..MaxThreads |-> "idle"]
  /\ calls = 0
  /\ asked = 0
  /\ task = None
  /\ raised = ""
  /\ got = None
  /\ sent = None
  /\ call = [name |-> "", step |-> NoStep]
  /\ given = [data |-> "", context |-> ""]
  /\ wire = NoWire
  /\ reply = [raised |-> "", ret |-> None]
  /\ replies = <<>>
  /\ holding = [w \in 1..MaxWorkers |-> <<>>]
  /\ handed_ever = EmptyDict
  /\ LET s == LoadCheckpoint(Constructed(<<>>, <<>>, <<>>, now), input_file)
     IN  /\ outfile = s.outfile
         /\ checkpoint_file = s.checkpoint_file
         /\ checkpoint_tmp = s.checkpoint_tmp
         /\ last_processed_work_id = s.last_processed_work_id
         /\ next_work_id = s.next_work_id
         /\ input_offset = s.input_offset
         /\ infile_pos = s.infile_pos
         /\ last_checkpoint_time = s.last_checkpoint_time
         /\ expired_reissues = s.expired_reissues
         /\ issued = s.issued
         /\ issued_heap = s.issued_heap
         /\ pending_write = s.pending_write
         /\ handed = s.handed
         /\ issued_at = s.issued_at
         /\ completed = s.completed
         /\ tombstoned = s.tombstoned

InitFor(retries, interval) == InitOn(InputFiles, retries, interval)

\* The process starts on an empty output file and no checkpoint file, and
\* writes a checkpoint at most once a second.
InitWith(interval) == InitFor(MaxRetriesChoices, interval)

Init == InitWith(1)

\* One second passes.
Tick ==
  /\ issued_heap' = [i \in DOMAIN issued_heap |->
                       <<Older(issued_heap[i][1], MaxAge), issued_heap[i][2]>>]
  /\ issued_at' = [w \in DOMAIN issued_at |-> Older(issued_at[w], MaxAge)]
  /\ last_checkpoint_time' = Older(last_checkpoint_time, checkpoint_interval)
  /\ UNCHANGED <<config, disk, pc, restarts, last_processed_work_id,
                 next_work_id, input_offset, infile_pos, expired_reissues,
                 issued, pending_write, ret, handed, completed, tombstoned,
                 threads, apart>>

\* get_work_batch(batch_size)
GetWorkBatch(batch_size) ==
  /\ pc = "running"
  /\ \E r \in {Call(LAMBDA self :
                       GetWorkBatchResult(self, batch_size, now, max_retries,
                                          input_file),
                     Self)} :
       /\ Becomes(r.s)
       /\ max_retries = -1 => r.s.expired_reissues <= MaxReissues
       /\ ret' = r.batch
  /\ UNCHANGED <<config, pc, restarts, threads, apart>>

\* The batches workers submit: any work ids, issued or not, with results
\* from the given set.
Batches(results) ==
  UNION {[1..n -> WorkIds \X results] : n \in 0..MaxCompletions}

CompletionBatches == Batches(Results)

\* Batches of workers that all compute the same result.
UniformBatches == Batches({<<"X">>})

\* complete_work_batch(batch)
CompleteWorkBatch(batch) ==
  /\ pc = "running"
  /\ Becomes(CompleteWorkBatchInternal(Self, batch, now))
  /\ ret' = None
  /\ UNCHANGED <<config, pc, restarts, threads, apart>>

\* Variant: close() writes no final checkpoint.
CloseWithoutCheckpoint ==
  /\ pc = "running"
  /\ Becomes(Constructed(outfile, checkpoint_file, checkpoint_tmp, now))
  /\ ret' = None
  /\ pc' = "closed"
  /\ UNCHANGED <<config, restarts, threads, apart>>

\* close(), after which the process ends
Close ==
  /\ pc = "running"
  /\ \E closed \in {Call(LAMBDA self : WriteCheckpoint(self), Self)} :
       Becomes(Constructed(closed.outfile, closed.checkpoint_file,
                           closed.checkpoint_tmp, now))
  /\ ret' = None
  /\ pc' = "closed"
  /\ UNCHANGED <<config, restarts, threads, apart>>

\* The process is killed between two operations; only the files survive.
Crash ==
  /\ pc = "running"
  /\ Becomes(Constructed(outfile, checkpoint_file, checkpoint_tmp, now))
  /\ ret' = None
  /\ pc' = "killed"
  /\ UNCHANGED <<config, restarts, threads, apart>>

\* DataTracker(...) is constructed again over the same three files; when
\* _load_checkpoint raises there is no object ("failed").
Restart ==
  /\ pc # "running"
  /\ restarts < MaxRestarts
  /\ \E new \in {Constructed(outfile, checkpoint_file, checkpoint_tmp, now)} :
       IF LoadCheckpointRaises(new)
         THEN Becomes(new) /\ pc' = "failed"
         ELSE Becomes(LoadCheckpoint(new, input_file)) /\ pc' = "running"
  /\ ret' = None
  /\ restarts' = restarts + 1
  /\ UNCHANGED <<config, threads, apart>>

Next ==
  \/ Tick
  \/ \E batch_size \in 1..MaxBatchSize : GetWorkBatch(batch_size)
  \/ \E batch \in UniformBatches : CompleteWorkBatch(batch)
  \/ Close
  \/ Crash
  \/ Restart

Spec == Init /\ [][Next]_vars

\* The whole life over one input, with one more start than Spec allows: the
\* process can be started again after a run that was itself a recovery.
RestartAgain ==
  /\ pc # "running"
  /\ restarts < MaxRestarts + 1
  /\ \E new \in {Constructed(outfile, checkpoint_file, checkpoint_tmp, now)} :
       IF LoadCheckpointRaises(new)
         THEN Becomes(new) /\ pc' = "failed"
         ELSE Becomes(LoadCheckpoint(new, input_file)) /\ pc' = "running"
  /\ ret' = None
  /\ restarts' = restarts + 1
  /\ UNCHANGED <<config, threads, apart>>

InitRecovery ==
  /\ InitWith(1)
  /\ input_file = InputOf(MaxLines, TRUE)
  /\ max_retries = -1

NextRecovery ==
  \/ Tick
  \/ \E batch_size \in 1..MaxBatchSize : GetWorkBatch(batch_size)
  \/ \E batch \in UniformBatches : CompleteWorkBatch(batch)
  \/ Close
  \/ Crash
  \/ RestartAgain

RecoverySpec == InitRecovery /\ [][NextRecovery]_vars

\* While no process runs, the file at checkpoint_path is damaged by
\* something other than _write_checkpoint: its text is cut short, or its
\* bytes are overwritten with bytes that are not text.
DamagedKinds == {"part", "garbled"}

CheckpointDamaged(bytes) ==
  /\ pc \in {"closed", "killed"}
  /\ checkpoint_file # <<>>
  /\ checkpoint_file[1].bytes = "all"
  /\ checkpoint_file' = <<[checkpoint_file[1] EXCEPT !.bytes = bytes]>>
  /\ UNCHANGED <<config, outfile, checkpoint_tmp, pc, restarts, memory,
                 history, threads, apart>>

NextDamaged ==
  \/ Tick
  \/ \E batch_size \in 1..MaxBatchSize : GetWorkBatch(batch_size)
  \/ \E batch \in UniformBatches : CompleteWorkBatch(batch)
  \/ Close
  \/ Crash
  \/ \E bytes \in DamagedKinds : CheckpointDamaged(bytes)
  \/ Restart

DamagedSpec == Init /\ [][NextDamaged]_vars

\* The process is killed inside _write_checkpoint, before the rename, when
\* it has come as far as step number upto: of close(), ...
KilledInClose(upto) ==
  /\ pc = "running"
  /\ \E dying \in {Call(LAMBDA self : WriteCheckpointUpTo(self, upto), Self)} :
       Becomes(Constructed(dying.outfile, dying.checkpoint_file,
                           dying.checkpoint_tmp, now))
  /\ ret' = None
  /\ pc' = "killed"
  /\ UNCHANGED <<config, restarts, threads, apart>>

\* ... or of a complete_work_batch(batch) that has flushed and found a
\* checkpoint due.
KilledInCompleteWorkBatch(batch, upto) ==
  /\ pc = "running"
  /\ \E flushed \in {Call(LAMBDA stored : FlushPendingWrites(stored),
                          Call(LAMBDA self : StoreAll(self, batch), Self))} :
       /\ CheckpointDue(flushed, now, checkpoint_interval)
       /\ \E dying \in {WriteCheckpointUpTo(flushed, upto)} :
            Becomes(Constructed(dying.outfile, dying.checkpoint_file,
                                dying.checkpoint_tmp, now))
  /\ ret' = None
  /\ pc' = "killed"
  /\ UNCHANGED <<config, restarts, threads, apart>>

\* The steps before the rename.
BeforeRename == 1..(Len(CheckpointSteps) - 1)

NextCheckpoint ==
  \/ Tick
  \/ \E batch_size \in 1..MaxBatchSize : GetWorkBatch(batch_size)
  \/ \E batch \in UniformBatches : CompleteWorkBatch(batch)
  \/ Close
  \/ \E upto \in BeforeRename : KilledInClose(upto)
  \/ \E batch \in UniformBatches, upto \in BeforeRename :
       KilledInCompleteWorkBatch(batch, upto)

CheckpointSpec == Init /\ [][NextCheckpoint]_vars

\* ------------------------------------------------------------ threads
\* The threads of the server calling the public methods of one DataTracker.
Threads == 1..MaxThreads

PublicOperations ==
  {"get_work_batch", "complete_work_batch", "all_work_complete", "close"}

\* The methods whose body is inside "with self._state_lock:".
UsesLock(operation) ==
  operation \in {"get_work_batch", "complete_work_batch", "close"}

\* Thread t calls a public method; "with self._state_lock:" waits until
\* the lock is free and takes it.
Enter(t, operation) ==
  /\ pc = "running"
  /\ at[t] = "idle"
  /\ IF UsesLock(operation) THEN lock = 0 /\ lock' = t ELSE lock' = lock
  /\ at' = [at EXCEPT ![t] = operation]
  /\ UNCHANGED <<config, disk, pc, restarts, memory, history, apart>>

\* Leaving the with block releases the lock.
Exit(t) ==
  /\ lock' = (IF lock = t THEN 0 ELSE lock)
  /\ at' = [at EXCEPT ![t] = "idle"]

\* The body of get_work_batch, run by thread t.
RunGetWorkBatch(t, batch_size) ==
  /\ at[t] = "get_work_batch"
  /\ \E r \in {Call(LAMBDA self :
                       GetWorkBatchResult(self, batch_size, now, max_retries,
                                          input_file),
                     Self)} :
       /\ Becomes(r.s)
       /\ max_retries = -1 => r.s.expired_reissues <= MaxReissues
       /\ ret' = r.batch
  /\ Exit(t)
  /\ UNCHANGED <<config, pc, restarts, apart>>

\* The loop of _complete_work_batch, run by thread t; the flush follows.
RunStore(t, batch) ==
  /\ at[t] = "complete_work_batch"
  /\ Becomes(StoreAll(Self, batch))
  /\ at' = [at EXCEPT ![t] = "_flush_pending_writes"]
  /\ UNCHANGED <<config, pc, restarts, ret, lock, apart>>

\* The rest of _complete_work_batch: flush, and checkpoint if one is due.
RunFlush(t) ==
  /\ at[t] = "_flush_pending_writes"
  /\ Becomes(FlushAndCheckpoint(Self, now))
  /\ ret' = None
  /\ Exit(t)
  /\ UNCHANGED <<config, pc, restarts, apart>>

\* The body of all_work_complete, run by thread t; on files that close()
\* has closed, self.infile.tell() raises ValueError.
RunAllWorkComplete(t) ==
  /\ at[t] = "all_work_complete"
  /\ ret' = IF pc = "running" THEN <<AllWorkComplete(Self, input_file)>>
                              ELSE <<"ValueError">>
  /\ Exit(t)
  /\ UNCHANGED <<config, disk, pc, restarts, memory, handed, issued_at,
                 completed, tombstoned, apart>>

\* The body of close, run by thread t.
RunClose(t) ==
  /\ at[t] = "close"
  /\ \E closed \in {Call(LAMBDA self : WriteCheckpoint(self), Self)} :
       Becomes(Constructed(closed.outfile, closed.checkpoint_file,
                           closed.checkpoint_tmp, now))
  /\ ret' = None
  /\ pc' = "closed"
  /\ Exit(t)
  /\ UNCHANGED <<config, restarts, apart>>

NextLock ==
  \/ Tick
  \/ \E t \in Threads, operation \in PublicOperations : Enter(t, operation)
  \/ \E t \in Threads, batch_size \in 1..MaxBatchSize :
       RunGetWorkBatch(t, batch_size)
  \/ \E t \in Threads, batch \in UniformBatches : RunStore(t, batch)
  \/ \E t \in Threads : RunFlush(t)
  \/ \E t \in Threads : RunAllWorkComplete(t)
  \/ \E t \in Threads : RunClose(t)

LockSpec == Init /\ [][NextLock]_vars

\* One run of the process: it is neither closed nor killed, and it writes
\* a checkpoint with every completion.
InitRun == InitWith(0)

NextRun ==
  \/ Tick
  \/ \E batch_size \in 1..MaxBatchSize : GetWorkBatch(batch_size)
  \/ \E batch \in CompletionBatches : CompleteWorkBatch(batch)

RunSpec == InitRun /\ [][NextRun]_vars

\* A run that writes a checkpoint at most once in two seconds.
InitPaced == InitWith(2)

NextPaced ==
  \/ Tick
  \/ \E batch_size \in 1..MaxBatchSize : GetWorkBatch(batch_size)
  \/ \E batch \in UniformBatches : CompleteWorkBatch(batch)

PacedSpec == InitPaced /\ [][NextPaced]_vars

\* Runs that end with close(), each followed by a new start of the process;
\* a checkpoint is rarely due when close() is called.
NextClosed ==
  \/ Tick
  \/ \E batch_size \in 1..MaxBatchSize : GetWorkBatch(batch_size)
  \/ \E batch \in UniformBatches : CompleteWorkBatch(batch)
  \/ Close
  \/ Restart

ClosedSpec == InitPaced /\ [][NextClosed]_vars

\* ------------------------------------------------------------ workers
\* Workers that each hold at most one batch: a worker asks for work only
\* when it holds none, and completes the whole batch it holds at once.
\* They ask for one item at a time, and the input has one line more than
\* there are workers.
worker_batch_size == 1

InitWorkers ==
  InitOn({InputOf(MaxWorkers * worker_batch_size + 1, TRUE)},
         MaxRetriesChoices, 0)

WorkerGetsWork(w) ==
  /\ pc = "running"
  /\ holding[w] = <<>>
  /\ \E r \in {Call(LAMBDA self :
                       GetWorkBatchResult(self, worker_batch_size, now,
                                          max_retries, input_file),
                     Self)} :
       /\ Becomes(r.s)
       /\ max_retries = -1 => r.s.expired_reissues <= MaxReissues
       /\ ret' = r.batch
       /\ holding' = [holding EXCEPT
                        ![w] = [i \in DOMAIN r.batch |-> r.batch[i][1]]]
  /\ UNCHANGED <<config, pc, restarts, threads, counters, tasks, clients,
                 tallies>>

WorkerCompletes(w) ==
  /\ pc = "running"
  /\ holding[w] # <<>>
  /\ \E result \in Results :
       Becomes(CompleteWorkBatchInternal(
                 Self,
                 [i \in DOMAIN holding[w] |-> <<holding[w][i], result>>],
                 now))
  /\ ret' = None
  /\ holding' = [holding EXCEPT ![w] = <<>>]
  /\ UNCHANGED <<config, pc, restarts, threads, counters, tasks, clients,
                 tallies>>

NextWorkers ==
  \/ Tick
  \/ \E w \in 1..MaxWorkers : WorkerGetsWork(w)
  \/ \E w \in 1..MaxWorkers : WorkerCompletes(w)

WorkerSpec == InitWorkers /\ [][NextWorkers]_vars

\* A run with max_retries = 2: an item can be handed out three times.
InitOrder == InitFor({2}, 0)

OrderSpec == InitOrder /\ [][NextRun]_vars

\* ------------------------------------------------------- counted calls
\* get_work_batch(batch_size), counted.  No input has more than MaxLines
\* lines, so a count that has reached MaxLines is held there.
CountedGetWorkBatch(batch_size) ==
  /\ pc = "running"
  /\ \E r \in {Call(LAMBDA self :
                       GetWorkBatchResult(self, batch_size, now, max_retries,
                                          input_file),
                     Self)} :
       /\ Becomes(r.s)
       /\ max_retries = -1 => r.s.expired_reissues <= MaxReissues
       /\ ret' = r.batch
  /\ calls' = Min({calls + 1, MaxLines})
  /\ asked' = Min({asked + batch_size, MaxLines})
  /\ UNCHANGED <<config, pc, restarts, threads, tasks, clients, workers,
                 tallies>>

NextCount ==
  \/ Tick
  \/ \E batch_size \in 1..MaxBatchSize : CountedGetWorkBatch(batch_size)
  \/ \E batch \in UniformBatches : CompleteWorkBatch(batch)

CountSpec == InitRun /\ [][NextCount]_vars

\* A run in which time keeps advancing and workers keep polling for work;
\* nothing obliges a worker to complete what it was given.
Poll == \E batch_size \in 1..MaxBatchSize : GetWorkBatch(batch_size)

\* Retries are capped: max_retries is not -1.
InitLive == InitRun /\ max_retries >= 0

LiveSpec == InitLive /\ [][NextRun]_vars /\ WF_vars(Tick) /\ WF_vars(Poll)

\* A run with capped retries, with no obligation on time or on the workers.
CappedSpec == InitLive /\ [][NextRun]_vars

\* ------------------------------------------------- hand-outs, all runs
\* get_work_batch(batch_size), with a tally of the hand-outs of each work id
\* that is kept over the starts of the process.
TalliedGetWorkBatch(batch_size) ==
  /\ pc = "running"
  /\ \E r \in {Call(LAMBDA self :
                       GetWorkBatchResult(self, batch_size, now, max_retries,
                                          input_file),
                     Self)} :
       /\ Becomes(r.s)
       /\ ret' = r.batch
       /\ LET ids == {r.batch[i][1] : i \in DOMAIN r.batch}
          IN  handed_ever' =
                [w \in DOMAIN handed_ever \cup ids |->
                   (IF w \in DOMAIN handed_ever THEN handed_ever[w] ELSE 0)
                     + (IF w \in ids THEN 1 ELSE 0)]
  /\ UNCHANGED <<config, pc, restarts, threads, counters, tasks, clients,
                 workers>>

\* Runs with max_retries = 1 that are killed and started again; work is
\* handed out one item at a time.
NextTally ==
  \/ Tick
  \/ TalliedGetWorkBatch(1)
  \/ \E batch \in UniformBatches : CompleteWorkBatch(batch)
  \/ Crash
  \/ Restart

InitTally == InitOn({InputOf(MaxLines, TRUE)}, {1}, 0)

TallySpec == InitTally /\ [][NextTally]_vars

\* ------------------------------------------------------- GeneratorTask
\* What a method of GeneratorTask leaves behind: the object and the
\* exception it let out ("" if it returned).
Outcome(t, exception) == [t |-> t, raised |-> exception]

\* The generator is not suspended at a yield.
NoYield == [kind |-> "", items |-> <<>>]

\* The generator object after it has run to its next step: the number of
\* its yields so far, the value of the yield it is suspended at, whether it
\* has finished.
Resumed(t, step) ==
  [t EXCEPT !.yields = IF step.op = "yield" THEN @ + 1 ELSE @,
            !.at_yield = IF step.op = "yield"
                           THEN [kind |-> step.kind, items |-> step.items]
                           ELSE NoYield,
            !.exhausted = step.op # "yield"]

\* The steps open to the generator of task t when next() or send() runs it;
\* an exhausted generator stops again, with no value.
GenSteps(t) ==
  IF t.exhausted THEN {Step("return", "", <<>>, None, "", "")}
  ELSE IF t.yields >= MaxYields THEN Returns \cup Raises
  ELSE Yields(t.yields) \cup Returns \cup Raises

\* _enqueue(yielded).
Enqueue(t, yielded) ==
  IF yielded.kind = "none" THEN Outcome(t, "ValueError")
  ELSE IF yielded.kind = "list"
    THEN IF yielded.items = <<>> THEN Outcome(t, "ValueError")
         ELSE Outcome([t EXCEPT !.pending_reqs = @ \o yielded.items,
                                !.awaiting_responses =
                                  @ + Len(yielded.items)],
                      "")
    ELSE Outcome([t EXCEPT !.pending_reqs = Append(@, yielded.items[1]),
                           !.awaiting_responses = @ + 1],
                 "")

\* Variant: "if not stop.value" in place of "stop.value is None".
ReturnedIfTruthy(t, value) ==
  IF value = None \/ value = <<EmptyDict>> THEN Outcome(t, "RuntimeError")
  ELSE Outcome([t EXCEPT !.result = value], "")

\* "except StopIteration as stop": the generator returned value.
Returned(t, value) ==
  IF value = None THEN Outcome(t, "RuntimeError")
  ELSE Outcome([t EXCEPT !.result = value], "")

\* Variant: the error is recorded under the default error_type.
ErrorResultDefaultType(e, data) ==
  [__ERROR__ |-> [error |-> "task_logic_error", message |-> e.message,
                  task_data |-> data]]

\* The dict that records a TaskFailed e as the result of a task.
ErrorResult(e, data) ==
  [__ERROR__ |-> [error |-> e.error_type, message |-> e.message,
                  task_data |-> data]]

\* "except TaskFailed as e".
Failed(t, e) == Outcome([t EXCEPT !.result = <<ErrorResult(e, t.data)>>], "")

\* GeneratorTask(data, context), whose generator does step when started.
NewGeneratorTask(data, context, step) ==
  LET t == [data |-> data, context |-> context, pending_reqs |-> <<>>,
            awaiting_responses |-> 0, collected |-> <<>>, result |-> None,
            yields |-> 0, at_yield |-> NoYield, exhausted |-> FALSE,
            sends |-> 0]
      g == Resumed(t, step)
  IN  CASE step.op = "yield" -> Enqueue(g, step)
        [] step.op = "return" -> Returned(g, step.value)
        [] step.op = "raise" -> Failed(g, step)

\* _advance_generator(), whose generator does step when resumed.
AdvanceGenerator(t, step) ==
  LET arg == IF Len(t.collected) = 1
               THEN [kind |-> "response", items |-> <<t.collected[1]>>]
               ELSE [kind |-> "list", items |-> t.collected]
      g == Resumed([t EXCEPT !.collected = <<>>, !.sends = @ + 1], step)
      r == CASE step.op = "yield" -> Enqueue(g, step)
             [] step.op = "return" -> Returned(g, step.value)
             [] step.op = "raise" -> Failed(g, step)
  IN  [t |-> r.t, raised |-> r.raised, sent |-> <<arg>>, step |-> step]

\* process_result(response); sent is None and step is NoStep when the
\* generator was not resumed.
ProcessResultOutcome(t, response, step) ==
  LET a == [t EXCEPT !.collected = Append(@, response),
                     !.awaiting_responses = @ - 1]
  IN  IF a.awaiting_responses = 0 /\ a.result = None
        THEN AdvanceGenerator(a, step)
        ELSE [t |-> a, raised |-> "", sent |-> None, step |-> NoStep]

\* Variant: "pop()" in place of "pop(0)".
GetNextRequestResultLast(t) ==
  IF t.pending_reqs # <<>>
    THEN [t |-> [t EXCEPT !.pending_reqs = SubSeq(@, 1, Len(@) - 1)],
          ret |-> <<t.pending_reqs[Len(t.pending_reqs)]>>]
    ELSE [t |-> t, ret |-> None]

\* get_next_request().
GetNextRequestResult(t) ==
  IF t.pending_reqs # <<>>
    THEN [t |-> [t EXCEPT !.pending_reqs = Tail(@)],
          ret |-> <<Head(t.pending_reqs)>>]
    ELSE [t |-> t, ret |-> None]

\* is_done().
IsDone(t) == t.result # None

\* get_result().
GetResult(t) ==
  IF t.result = None THEN [raised |-> "RuntimeError", ret |-> None]
  ELSE [raised |-> "", ret |-> << <<t.result[1], t.context>> >>]

\* The constructor; when it raises there is no object.
Construct(data, context) ==
  /\ task = None
  /\ call.name = ""
  /\ \E step \in Yields(0) \cup Returns \cup Raises :
       LET r == NewGeneratorTask(data, context, step)
       IN  /\ task' = IF r.raised = "" THEN r.t ELSE None
           /\ raised' = r.raised
           /\ call' = [name |-> "__init__", step |-> step]
  /\ given' = [data |-> data, context |-> context]
  /\ UNCHANGED <<got, sent>>
  /\ UNCHANGED <<config, disk, pc, restarts, memory, history, threads,
                 counters, clients, workers, tallies>>

GetNextRequest ==
  /\ task # None
  /\ LET r == GetNextRequestResult(task)
     IN  /\ task' = r.t
         /\ got' = r.ret
  /\ raised' = ""
  /\ call' = [name |-> "get_next_request", step |-> NoStep]
  /\ UNCHANGED <<sent, given>>
  /\ UNCHANGED <<config, disk, pc, restarts, memory, history, threads,
                 counters, clients, workers, tallies>>

\* process_result(response); one response more than the task awaits is
\* delivered, no further ones.
ProcessResult(response) ==
  /\ task # None
  /\ task.awaiting_responses >= 0
  /\ \E step \in GenSteps(task) :
       LET r == ProcessResultOutcome(task, response, step)
       IN  /\ task' = r.t
           /\ raised' = r.raised
           /\ sent' = IF r.sent = None THEN sent ELSE r.sent
           /\ call' = [name |-> "process_result", step |-> r.step]
  /\ UNCHANGED <<got, given>>
  /\ UNCHANGED <<config, disk, pc, restarts, memory, history, threads,
                 counters, clients, workers, tallies>>

InitTask ==
  /\ InitRun
  /\ input_file = InputOf(1, TRUE)
  /\ max_retries = -1

NextTask ==
  \/ \E a \in TaskArgs : Construct(a.data, a.context)
  \/ GetNextRequest
  \/ \E response \in Responses : ProcessResult(response)

TaskSpec == InitTask /\ [][NextTask]_vars

\* ---------------------------------------------------------- WorkClient
\* WorkResponse(**kwargs): an object with the keyword arguments as its
\* attributes.
WorkResponse(kwargs) == kwargs

\* Variant: only a server error status raises.
RaiseForStatusServerOnly(status_code) == status_code >= 500

\* response.raise_for_status() raises HTTPError.
RaiseForStatus(status_code) == 400 <= status_code /\ status_code < 600

\* get_work(), when requests.get does w.
GetWork(w) ==
  IF w.error \in ConnectionErrors
    THEN [raised |-> "",
          ret |-> <<WorkResponse([status |-> "server_unavailable"])>>]
  ELSE IF w.error # "" THEN [raised |-> w.error, ret |-> None]
  ELSE IF w.status_code = 404
    THEN [raised |-> "",
          ret |-> <<WorkResponse([status |-> "all_work_complete"])>>]
  ELSE IF RaiseForStatus(w.status_code)
    THEN [raised |-> "HTTPError", ret |-> None]
  ELSE IF w.body = None THEN [raised |-> "JSONDecodeError", ret |-> None]
  ELSE [raised |-> "", ret |-> <<WorkResponse(w.body[1])>>]

\* What a worker sees of an outcome: the status, or the exception's name.
Seen(r) == IF r.raised # "" THEN r.raised ELSE r.ret[1].status

\* One call of get_work by a client that polls up to MaxPolls times.
GetWorkCall(w) ==
  /\ Len(replies) < MaxPolls
  /\ wire' = w
  /\ reply' = GetWork(w)
  /\ replies' = Append(replies, Seen(GetWork(w)))
  /\ UNCHANGED <<config, disk, pc, restarts, memory, history, threads,
                 counters, tasks, workers, tallies>>

NextClient == \E w \in Wires : GetWorkCall(w)

ClientSpec == InitTask /\ [][NextClient]_vars

\* ------------------------------------------------------------ properties
OutputLines == Lines(outfile, 0)

InputLines == Lines(input_file, 0)

Ids(batch) == {batch[i][1] : i \in DOMAIN batch}

\* C1: in a run from an empty output and no checkpoint the output holds
\* exactly last_processed_work_id + 1 terminated lines, line i is the result
\* accepted for work_id i (a tombstone of input line i if it was tombstoned),
\* the content issued with work_id i is input line i, and every step only
\* appends to the output, never moving last_processed_work_id back.
C1_OutputInInputOrder ==
  /\ CountLines(outfile, 0) = last_processed_work_id + 1
  /\ outfile # <<>> => outfile[Len(outfile)] = NL
  /\ \A w \in 0..last_processed_work_id :
       /\ w \in DOMAIN completed
       /\ OutputLines[w + 1] = completed[w]
       /\ w \in tombstoned =>
            OutputLines[w + 1] = Tombstone(w, InputLines[w + 1])
  /\ \A w \in DOMAIN issued : issued[w].content = InputLines[w + 1]
  /\ \A i \in DOMAIN ret : ret[i][2] = InputLines[ret[i][1] + 1]

C1_AppendOnly ==
  /\ last_processed_work_id' >= last_processed_work_id
  /\ Len(outfile') >= Len(outfile)
  /\ SubSeq(outfile', 1, Len(outfile)) = outfile

C1_Theorem == []C1_OutputInInputOrder /\ [][C1_AppendOnly]_vars

\* Both lines are written with different results, after work_id 0 had timed
\* out and been handed out a second time.
C1_Witness ==
  /\ last_processed_work_id = 1
  /\ DOMAIN completed = {0, 1}
  /\ completed[0] # completed[1]
  /\ handed[0] = 2
  /\ OutputLines = <<completed[0], completed[1]>>

\* What a completion may change.
Observed(s) ==
  <<s.outfile, s.pending_write, s.issued, s.last_processed_work_id>>

\* complete_work_batch as a function of the state
Complete(s, batch) == CompleteWorkBatchInternal(s, batch, now)

\* C2: the first result submitted for an issued work_id is the one held in
\* pending_write and then written; a second result for the same work_id,
\* in the same batch or in a later call, changes nothing; and a step writes
\* exactly one line for each id that last_processed_work_id advances over.
C2_FirstKept ==
  /\ \A w \in DOMAIN completed :
       \/ w \in DOMAIN pending_write /\ pending_write[w] = completed[w]
       \/ w <= last_processed_work_id /\ OutputLines[w + 1] = completed[w]
  /\ \A w \in WorkIds, r1 \in Results, r2 \in Results :
       LET first == Complete(Self, << <<w, r1>> >>)
       IN  /\ Observed(Complete(Self, << <<w, r1>>, <<w, r2>> >>))
                = Observed(first)
           /\ Observed(Complete(first, << <<w, r2>> >>)) = Observed(first)

C2_WrittenOnce ==
  CountLines(outfile', 0) - CountLines(outfile, 0)
    = last_processed_work_id' - last_processed_work_id

C2_Theorem == []C2_FirstKept /\ [][C2_WrittenOnce]_vars

\* Work id 0 is written with the first result submitted for it, and a
\* completion of work id 0 with the other result is discarded.
C2_Witness ==
  /\ 0 \in DOMAIN completed
  /\ last_processed_work_id >= 0
  /\ OutputLines[1] = completed[0]
  /\ \E r \in Results \ {completed[0]} :
       Observed(Complete(Self, << <<0, r>> >>)) = Observed(Self)

\* C3: in every state, for every (work_id, result), two calls of
\* complete_work_batch with that pair leave the output file, pending_write,
\* the issued map and last_processed_work_id as one call leaves them.
C3_Idempotent ==
  \A w \in WorkIds, r \in Results :
    LET once == Complete(Self, << <<w, r>> >>)
        twice == Complete(once, << <<w, r>> >>)
    IN  Observed(twice) = Observed(once)

\* Work id 1 was completed and is held in pending_write behind work id 0;
\* the same pair submitted again is discarded.
C3_Witness ==
  /\ 1 \in DOMAIN completed
  /\ 1 \in DOMAIN pending_write
  /\ pending_write[1] = completed[1]
  /\ Observed(Complete(Self, << <<1, completed[1]>> >>)) = Observed(Self)

\* The items in flight, and those of them whose latest issue timed out.
Live(s) == {w \in DOMAIN s.issued : w \notin DOMAIN s.pending_write}

ExpiredLive(s) == {w \in Live(s) : now - s.issued_at[w] > work_timeout}

\* The expired items in flight that may be handed out once more.
Eligible(s) ==
  {w \in ExpiredLive(s) : max_retries = -1 \/ s.issued[w].retry_count < max_retries}

\* get_work_batch(batch_size) as a function of the present state
Get(batch_size) ==
  GetWorkBatchResult(Self, batch_size, now, max_retries, input_file)

Written(w) == w <= last_processed_work_id

\* C4: with max_retries >= 0, when time keeps advancing and workers keep
\* calling get_work_batch, every work_id that was handed out is eventually
\* written, and last_processed_work_id reaches N - 1 and stays there, whether
\* or not workers complete anything.
C4_EveryIssuedIsWritten ==
  max_retries >= 0 =>
    /\ \A w \in WorkIds : [](w \in DOMAIN handed => <>Written(w))
    /\ <>[](last_processed_work_id = CountLines(input_file, 0) - 1)

\* Every line of a two-line input is written, one of them as a tombstone.
C4_Witness ==
  /\ max_retries >= 0
  /\ CountLines(input_file, 0) = 2
  /\ last_processed_work_id = 1
  /\ tombstoned # {}
  /\ \E w \in tombstoned : IsTombstone(OutputLines[w + 1])

\* C5 as amended: when an item in flight has timed out and may be handed
\* out once more, get_work_batch returns a batch whose first item is such
\* an item, with the content it was issued with, and none of those items
\* was issued before it.
C5_ReissuesOldestBelowCap ==
  \A b \in 1..MaxBatchSize :
    Eligible(Self) # {} =>
      LET batch == Get(b).batch
      IN  /\ batch # <<>>
          /\ batch[1][1] \in Eligible(Self)
          /\ batch[1][2] = issued[batch[1][1]].content
          /\ batch[1][2] = InputLines[batch[1][1] + 1]
          /\ \A w \in Eligible(Self) : issued_at[batch[1][1]] <= issued_at[w]

\* C5 as stated: the first item of the batch is the oldest of all expired
\* items in flight.
C5_ReissuesOldestExpired ==
  \A b \in 1..MaxBatchSize :
    Eligible(Self) # {} =>
      LET batch == Get(b).batch
      IN  /\ batch # <<>>
          /\ batch[1][1] \in ExpiredLive(Self)
          /\ batch[1][2] = issued[batch[1][1]].content
          /\ \A w \in ExpiredLive(Self) : issued_at[batch[1][1]] <= issued_at[w]

\* The last call handed out work id 1 a second time after it tombstoned
\* work id 0, which had timed out earlier but had reached max_retries.
C5_Witness ==
  /\ ret # None
  /\ ret[1][1] = 1
  /\ handed[1] = 2
  /\ issued_at[1] = now
  /\ 0 \in tombstoned
  /\ handed[0] = max_retries + 1

\* C6: a call reads a new line only when its reissue pass leaves no expired
\* item in flight, and every item it returns that was issued before the
\* call was an expired item in flight.
C6_ReissuesFirst ==
  \A b \in 1..MaxBatchSize :
    LET reissued == ReissuePass(Self, <<>>, b, now, max_retries)
        r == FreshPass(reissued.s, reissued.batch, b, now, input_file)
    IN  /\ r.s.next_work_id > next_work_id => ExpiredLive(reissued.s) = {}
        /\ \A i \in DOMAIN r.batch :
             r.batch[i][1] < next_work_id => r.batch[i][1] \in ExpiredLive(Self)
        /\ r.s.next_work_id - next_work_id
             = Cardinality({i \in DOMAIN r.batch : r.batch[i][1] >= next_work_id})

\* The last call reissued work id 0 and then read the line of work id 1.
C6_Witness ==
  /\ Len(ret) = 2
  /\ ret[1][1] = 0
  /\ handed[0] = 2
  /\ ret[2][1] = 1
  /\ handed[1] = 1
  /\ issued_at[0] = now
  /\ issued_at[1] = now

\* C7: with max_retries = N >= 0 no item is handed out more than N + 1
\* times, no retry_count exceeds N, an expired item with retry_count = N is
\* not in the batch of the next call, which tombstones it unless the batch
\* fills up before, and a tombstoned item was handed out N + 1 times and
\* completed with the tombstone of its input line.
C7_RetriesCapped ==
  max_retries >= 0 =>
    /\ \A w \in DOMAIN handed : handed[w] <= max_retries + 1
    /\ \A w \in DOMAIN issued :
         /\ issued[w].retry_count <= max_retries
         /\ issued[w].retry_count = handed[w] - 1
    /\ \A w \in tombstoned :
         /\ handed[w] = max_retries + 1
         /\ completed[w] = Tombstone(w, InputLines[w + 1])
    /\ \A b \in 1..MaxBatchSize :
         \A w \in ExpiredLive(Self) \ Eligible(Self) :
           /\ w \notin Ids(Get(b).batch)
           /\ Len(Get(b).batch) < b => w \in Get(b).s.tombstoned

\* With max_retries = 1 an item was handed out twice and then written as a
\* tombstone.
C7_Witness ==
  /\ max_retries = 1
  /\ \E w \in tombstoned :
       /\ handed[w] = 2
       /\ Written(w)
       /\ OutputLines[w + 1] = Tombstone(w, InputLines[w + 1])

\* C8: a call that tombstones work id last_processed_work_id + 1 leaves
\* last_processed_work_id at or above that id, returns a full batch unless
\* the input is exhausted and no expired item is left, and never returns an
\* id that it tombstoned.
C8_TombstoneAdvances ==
  \A b \in 1..MaxBatchSize :
    LET r == Get(b)
        head == last_processed_work_id + 1
    IN  /\ Ids(r.batch) \cap r.s.tombstoned = {}
        /\ head \in r.s.tombstoned \ tombstoned =>
             /\ r.s.last_processed_work_id >= head
             /\ IsTombstone(Lines(r.s.outfile, 0)[head + 1])
             /\ Len(r.batch) < b =>
                  /\ r.s.infile_pos = Len(input_file)
                  /\ ExpiredLive(r.s) = {}

\* The last call tombstoned work id 0 with max_retries = 0 and went on to
\* read the line of work id 1.
C8_Witness ==
  /\ max_retries = 0
  /\ tombstoned = {0}
  /\ last_processed_work_id = 0
  /\ ret # None
  /\ ret[1][1] = 1
  /\ handed[1] = 1
  /\ issued_at[1] = now
  /\ IsTombstone(OutputLines[1])

\* C9: get_work_batch returns no id that is in pending_write, whatever its
\* age; the ids it hands out again are items in flight; and it leaves the
\* results in pending_write as they are unless it writes them.
C9_PendingNotReissued ==
  \A b \in 1..MaxBatchSize :
    LET r == Get(b)
    IN  /\ Ids(r.batch) \cap DOMAIN pending_write = {}
        /\ \A w \in DOMAIN pending_write :
             /\ r.s.handed[w] = handed[w]
             /\ \/ /\ w \in DOMAIN r.s.pending_write
                   /\ r.s.pending_write[w] = pending_write[w]
                \/ /\ w <= r.s.last_processed_work_id
                   /\ Lines(r.s.outfile, 0)[w + 1] = pending_write[w]

\* Work id 1 timed out while its result waited in pending_write, and the
\* last call handed out only work id 0 again.
C9_Witness ==
  /\ 1 \in DOMAIN pending_write
  /\ now - issued_at[1] > work_timeout
  /\ handed[1] = 1
  /\ ret # None
  /\ Ids(ret) = {0}
  /\ handed[0] = 2
  /\ issued_at[0] = now

\* C10: a process started again over an output file of k lines and no
\* checkpoint file begins with last_processed_work_id = k - 1,
\* next_work_id = k and the input positioned after its first k lines.
C10_RecoversWithoutCheckpoint ==
  (pc = "running" /\ restarts > 0 /\ checkpoint_file = <<>>
     /\ handed = EmptyDict) =>
    LET k == CountLines(outfile, 0)
    IN  /\ last_processed_work_id = k - 1
        /\ next_work_id = k
        /\ infile_pos = SkipLines(input_file, 0, k)

\* C15: the checkpoint file is absent or holds a complete checkpoint, and
\* a kill inside _write_checkpoint before the rename leaves the checkpoint
\* file as it was.
C15_NeverPartial ==
  checkpoint_file = <<>> \/ checkpoint_file[1].bytes = "all"

C15_KillKeepsPrevious == pc' = "killed" => checkpoint_file' = checkpoint_file

C15_CheckpointAtomic == []C15_NeverPartial /\ [][C15_KillKeepsPrevious]_vars

\* Killed while the temporary file holds part of a new checkpoint that
\* differs from the complete one in the checkpoint file.
C15_Witness ==
  /\ pc = "killed"
  /\ checkpoint_file # <<>>
  /\ checkpoint_tmp # <<>>
  /\ checkpoint_tmp[1].bytes = "part"
  /\ checkpoint_tmp[1].last_processed_work_id
       # checkpoint_file[1].last_processed_work_id

\* C16: all_work_complete() is true exactly when no byte of the input is
\* left to read and pending_write is empty, whatever is in the issued map;
\* when it is true a get_work_batch call reads no new line, and when only
\* the input keeps it false a call that has room in its batch reads one.
C16_AllWorkComplete ==
  /\ AllWorkComplete(Self, input_file)
       <=> (ReadLine(input_file, infile_pos) = <<>>
              /\ DOMAIN pending_write = {})
  /\ \A b \in 1..MaxBatchSize :
       LET r == Get(b)
       IN  /\ AllWorkComplete(Self, input_file)
                => r.s.next_work_id = next_work_id
           /\ (~AllWorkComplete(Self, input_file) /\ DOMAIN pending_write = {}
                 /\ ExpiredLive(Self) = {})
                => r.s.next_work_id > next_work_id

\* all_work_complete() is true while both items are in flight and nothing
\* is written.
C16_Witness ==
  /\ AllWorkComplete(Self, input_file)
  /\ Live(Self) = {0, 1}
  /\ last_processed_work_id = -1
  /\ outfile = <<>>

\* The items of a batch that the call read from the input.
Fresh(batch, first_new) ==
  SelectSeq(batch, LAMBDA item : item[1] >= first_new)

\* C17: every public operation takes the state lock on entry, so that
\* while a thread is inside one public operation, holding the lock, no
\* other thread is inside a public operation.
C17_Serialised ==
  \A t, u \in Threads :
    (t # u /\ at[t] # "idle" /\ lock = t) => at[u] = "idle"

\* C18: calls of get_work_batch, in any order, allocate the work ids
\* 0, 1, 2, ... without gap or repetition, line i of the input getting
\* work id i; next_work_id never decreases; and the new items of one call
\* are next_work_id, next_work_id + 1, ... in this order.
C18_DenseInState ==
  /\ DOMAIN handed = 0..(next_work_id - 1)
  /\ infile_pos = SkipLines(input_file, 0, next_work_id)
  /\ \A b \in 1..MaxBatchSize :
       LET r == Get(b)
           fresh == Fresh(r.batch, next_work_id)
       IN  /\ r.s.next_work_id = next_work_id + Len(fresh)
           /\ \A i \in DOMAIN fresh :
                /\ fresh[i][1] = next_work_id + i - 1
                /\ fresh[i][2] = InputLines[fresh[i][1] + 1]

C18_NeverReallocated ==
  /\ next_work_id' >= next_work_id
  /\ \A w \in DOMAIN handed' \ DOMAIN handed : w >= next_work_id

C18_Theorem == []C18_DenseInState /\ [][C18_NeverReallocated]_vars

\* One call read both lines of the input and returned them as work ids 0
\* and 1.
C18_Witness ==
  /\ Len(ret) = 2
  /\ ret[1] = <<0, InputLines[1]>>
  /\ ret[2] = <<1, InputLines[2]>>
  /\ handed[0] = 1
  /\ handed[1] = 1
  /\ next_work_id = 2

\* C19: every key of pending_write is a key of the issued map, and every
\* key of the issued map is greater than last_processed_work_id.
C19_KeysAboveLastProcessed ==
  /\ DOMAIN pending_write \subseteq DOMAIN issued
  /\ \A w \in DOMAIN issued : w > last_processed_work_id

\* Work id 1 is completed and waits in pending_write for work id 0, which
\* is in flight.
C19_Witness ==
  /\ pc = "running"
  /\ last_processed_work_id = -1
  /\ DOMAIN pending_write = {1}
  /\ DOMAIN issued = {0, 1}

\* C20 as amended: a result for an item that was handed out more than once
\* is dropped when a result for that work id was accepted before it, and is
\* accepted (held in pending_write or written) when it is the first.
C20_LateResultFirstWins ==
  \A w \in DOMAIN handed, r \in Results :
    handed[w] >= 2 =>
      LET after == Complete(Self, << <<w, r>> >>)
      IN  IF w \in DOMAIN completed
            THEN Observed(after) = Observed(Self)
            ELSE \/ w \in DOMAIN after.pending_write
                      /\ after.pending_write[w] = r
                 \/ w <= after.last_processed_work_id
                      /\ Lines(after.outfile, 0)[w + 1] = r

\* C20 as stated: a result for an item that timed out and was handed out
\* again is not stored in pending_write and not written.
C20_LateResultDropped ==
  \A w \in DOMAIN handed, r \in Results :
    handed[w] >= 2 =>
      LET after == Complete(Self, << <<w, r>> >>)
      IN  /\ after.pending_write = pending_write
          /\ after.outfile = outfile

\* Work id 0 was handed out twice and one result for it is written; work
\* id 1 was handed out twice and no result for it has arrived.
C20_Witness ==
  /\ DOMAIN handed = {0, 1}
  /\ handed[0] = 2
  /\ handed[1] = 2
  /\ 0 \in DOMAIN completed
  /\ 0 \notin tombstoned
  /\ Written(0)
  /\ OutputLines[1] = completed[0]
  /\ 1 \in Live(Self)

\* C11: a start over a checkpoint file, with k lines in the output beyond
\* its output_offset, ends with last_processed_work_id = the checkpointed
\* one + k, next_work_id = last_processed_work_id + 1 and the input reader
\* at the start of input line next_work_id.
C11_Recovered ==
  (pc # "running" /\ pc' = "running" /\ checkpoint_file # <<>>) =>
    LET cp == checkpoint_file[1]
        k == CountLines(outfile, cp.output_offset)
    IN  /\ last_processed_work_id' = cp.last_processed_work_id + k
        /\ next_work_id' = last_processed_work_id' + 1
        /\ infile_pos' = SkipLines(input_file, 0, next_work_id')

C11_RecoveryFromCheckpoint == [][C11_Recovered]_vars

\* C12: whatever kills and restarts happen, the output never holds more
\* lines than the input, while the process runs it holds one line for each
\* work id up to last_processed_work_id, and a tombstone in line i is the
\* tombstone of work id i and input line i.
C12_RestartIdempotent ==
  /\ Len(OutputLines) <= Len(InputLines)
  /\ pc = "running" => CountLines(outfile, 0) = last_processed_work_id + 1
  /\ \A i \in 1..Min({Len(OutputLines), Len(InputLines)}) :
       IsTombstone(OutputLines[i]) =>
         OutputLines[i] = Tombstone(i - 1, InputLines[i])

\* C13: a step that writes a checkpoint, in a first run or in a run over
\* an existing checkpoint file, persists an input_offset that is the byte
\* position after the input line of the persisted last_processed_work_id
\* and an output_offset that is the byte length of the first
\* last_processed_work_id + 1 lines of the output.
C13_WritesAlignedOffsets ==
  (checkpoint_file' # checkpoint_file
     /\ (restarts = 0 \/ checkpoint_file # <<>>)) =>
    LET cp == checkpoint_file'[1]
    IN  /\ cp.input_offset
             = SkipLines(input_file, 0, cp.last_processed_work_id + 1)
        /\ cp.output_offset
             = SkipLines(outfile', 0, cp.last_processed_work_id + 1)

C13_CheckpointOffsets == [][C13_WritesAlignedOffsets]_vars

\* C14: in a run after a restart, as in the first run, every item that is
\* dispatched and tracked has no line in the output yet and carries the
\* input line of its work id.
C14_OnlyUnwrittenRedispatched ==
  pc = "running" =>
    \A w \in DOMAIN issued :
      /\ w >= CountLines(outfile, 0)
      /\ w < Len(InputLines)
      /\ issued[w].content = InputLines[w + 1]

\* C21: a completion for a work id that was never issued changes none of
\* output, pending_write, issued map, last_processed_work_id, next_work_id;
\* a batch with it has the effect of the batch without it; and a
\* get_work_batch that follows and may issue the id leaves it in flight,
\* with no result and no line.
C21_NeverIssuedDiscarded ==
  \A w \in 0..MaxLines, r \in Results :
    w >= next_work_id =>
      LET s == Complete(Self, << <<w, r>> >>)
      IN  /\ Observed(s) = Observed(Self)
          /\ s.next_work_id = next_work_id
          /\ \A v \in WorkIds, q \in Results :
               LET alone == Observed(Complete(Self, << <<v, q>> >>))
               IN  /\ Observed(Complete(Self, << <<w, r>>, <<v, q>> >>)) = alone
                   /\ Observed(Complete(Self, << <<v, q>>, <<w, r>> >>)) = alone
          /\ \A b \in 1..MaxBatchSize :
               LET g == GetWorkBatchResult(s, b, now, max_retries, input_file).s
               IN  /\ w \notin DOMAIN g.pending_write
                   /\ g.last_processed_work_id < w
                   /\ g.next_work_id > w => w \in DOMAIN g.issued

\* Work id 0 is in flight and work id 1 was not issued yet: a batch with
\* results for both writes the line of work id 0 only, and the call that
\* follows issues work id 1.
C21_Witness ==
  /\ next_work_id = 1
  /\ DOMAIN issued = {0}
  /\ pending_write = EmptyDict
  /\ LET s == Complete(Self, << <<1, <<"X">> >>, <<0, <<"X">> >> >>)
     IN  /\ s.last_processed_work_id = 0
         /\ s.pending_write = EmptyDict
         /\ 1 \in DOMAIN GetWorkBatchResult(s, 1, now, max_retries,
                                           input_file).s.issued

Removed == last_processed_work_id + 1

\* C23 as amended: the size of the issued map is at most the sum of the
\* batch_size of the get_work_batch calls made so far minus the number of
\* items removed by prefix advances so far.
C23_BoundedByAsked == Cardinality(DOMAIN issued) <= asked - Removed

\* C23 as stated: the size of the issued map is at most the number of
\* get_work_batch calls made so far minus the number of items removed by
\* prefix advances so far.
C23_BoundedByCalls == Cardinality(DOMAIN issued) <= calls - Removed

\* One call with batch_size 2 issued two items.
C23_Witness ==
  /\ calls = 1
  /\ asked = 2
  /\ Cardinality(DOMAIN issued) = 2
  /\ Removed = 0

\* C27: the keys of the issued map are exactly the ids from
\* last_processed_work_id + 1 to next_work_id - 1, so next_work_id is at
\* least last_processed_work_id + 1; and an id leaves the issued map only
\* in a step that moves last_processed_work_id up to it or beyond.
C27_IssuedIsInterval ==
  /\ DOMAIN issued = (last_processed_work_id + 1)..(next_work_id - 1)
  /\ next_work_id >= last_processed_work_id + 1

C27_RemovedWhenFlushed ==
  \A w \in DOMAIN issued :
    w \notin DOMAIN issued' =>
      last_processed_work_id < w /\ w <= last_processed_work_id'

C27_Theorem == []C27_IssuedIsInterval /\ [][C27_RemovedWhenFlushed]_vars

\* Work id 0 is written and work id 1 is tracked.
C27_Witness ==
  /\ last_processed_work_id = 0
  /\ next_work_id = 2
  /\ DOMAIN issued = {1}

\* The entries of the heap for work id w.
HeapEntries(w) == {i \in DOMAIN issued_heap : issued_heap[i][2] = w}

\* C28: every item in flight has exactly one entry in the heap, with the
\* time of its latest issue, and no work id has more than one entry.
C28_OneHeapEntry ==
  /\ \A w \in Live(Self) :
       /\ Cardinality(HeapEntries(w)) = 1
       /\ \A i \in HeapEntries(w) : issued_heap[i][1] = issued_at[w]
  /\ \A w \in WorkIds : Cardinality(HeapEntries(w)) <= 1

\* Work id 0 was reissued and is in flight; the entry of work id 1, whose
\* result waits in pending_write, is still in the heap.
C28_Witness ==
  /\ 0 \in Live(Self)
  /\ handed[0] = 2
  /\ 1 \in DOMAIN pending_write
  /\ Cardinality(HeapEntries(0)) = 1
  /\ Cardinality(HeapEntries(1)) = 1
  /\ issued_heap[1][2] = 1

\* Item u was issued before item v, or at the same time with the lower
\* id.  Issue times that are MaxAge old or older are held as MaxAge old,
\* and the order of two such times is not known.
IssuedBefore(u, v) ==
  \/ issued_at[u] < issued_at[v]
  \/ issued_at[u] = issued_at[v] /\ (u < v \/ issued_at[u] = 0 - MaxAge)

\* C29: in the batch of one get_work_batch call every reissued item was
\* last issued before the reissued item that follows it, ties going to the
\* lower work id, and no reissued item follows an item read from the input.
C29_ReissuesInHeapOrder ==
  \A b \in 1..MaxBatchSize :
    LET batch == Get(b).batch
    IN  \A i \in 1..(Len(batch) - 1) :
          batch[i + 1][1] < next_work_id =>
            /\ batch[i][1] < next_work_id
            /\ IssuedBefore(batch[i][1], batch[i + 1][1])

\* Work id 0 was handed out again later than work id 1 was first issued:
\* the next call hands out work id 1 before work id 0.
C29_Witness ==
  /\ DOMAIN issued = {0, 1}
  /\ pending_write = EmptyDict
  /\ handed[0] = 2
  /\ handed[1] = 1
  /\ issued_at[1] < issued_at[0]
  /\ LET batch == Get(2).batch
     IN  /\ Len(batch) = 2
         /\ batch[1][1] = 1
         /\ batch[2][1] = 0

\* C30: the tombstone branch, taken for an item in flight whose id W is
\* above last_processed_work_id + 1, writes nothing and holds the tombstone
\* in pending_write; a completion that follows writes the tombstone, as
\* line W, only when it brings last_processed_work_id up to W; and every
\* tombstone line of the output is the line of its own work id.
C30_TombstoneWaitsForPrefix ==
  /\ \A w \in Live(Self) :
       w > last_processed_work_id + 1 =>
         LET tomb == Tombstone(w, issued[w].content)
             s == TombstoneWork(Self, w, issued[w].content, now)
         IN  /\ s.outfile = outfile
             /\ s.last_processed_work_id = last_processed_work_id
             /\ s.pending_write = Put(pending_write, w, tomb)
             /\ w \in DOMAIN s.issued
             /\ \A v \in WorkIds, q \in Results :
                  LET after == Complete(s, << <<v, q>> >>)
                  IN  IF after.last_processed_work_id < w
                        THEN /\ CountLines(after.outfile, 0) <= w
                             /\ after.pending_write[w] = tomb
                        ELSE /\ CountLines(after.outfile, 0) > w
                             /\ Lines(after.outfile, 0)[w + 1] = tomb
  /\ \A i \in DOMAIN OutputLines :
       IsTombstone(OutputLines[i]) =>
         OutputLines[i] = Tombstone(i - 1, InputLines[i])

\* Work ids 0 and 1 are in flight: a tombstone for work id 1 waits in
\* pending_write, and the completion of work id 0 writes both lines.
C30_Witness ==
  /\ max_retries >= 0
  /\ last_processed_work_id = -1
  /\ Live(Self) = {0, 1}
  /\ LET s == TombstoneWork(Self, 1, issued[1].content, now)
         after == Complete(s, << <<0, <<"X">> >> >>)
     IN  /\ DOMAIN s.pending_write = {1}
         /\ s.outfile = <<>>
         /\ after.last_processed_work_id = 1
         /\ IsTombstone(Lines(after.outfile, 0)[2])

\* C24: right after the construction of a GeneratorTask: if the generator
\* yielded a request (or a non-empty list of requests), the task is not
\* done and get_next_request() returns that request (the first of the list);
\* if it returned a dict before any yield, the task is done, get_result()
\* returns (that dict, context) and get_next_request() returns None; if it
\* returned no value, the constructor raised RuntimeError.
C24_AfterConstruction ==
  call.name = "__init__" =>
    /\ (call.step.op = "yield" /\ call.step.kind \in {"request", "list"}
          /\ call.step.items # <<>>) =>
         /\ raised = ""
         /\ task # None
         /\ ~IsDone(task)
         /\ GetNextRequestResult(task).ret = <<call.step.items[1]>>
    /\ (call.step.op = "return" /\ call.step.value # None) =>
         /\ raised = ""
         /\ task # None
         /\ IsDone(task)
         /\ GetResult(task) =
              [raised |-> "",
               ret |-> << <<call.step.value[1], given.context>> >>]
         /\ GetNextRequestResult(task).ret = None
    /\ (call.step.op = "return" /\ call.step.value = None) =>
         /\ raised = "RuntimeError"
         /\ task = None

\* A task whose generator returned {} before any yield: it is done and its
\* result is ({}, "c2").
C24_Witness ==
  /\ call.name = "__init__"
  /\ call.step.op = "return"
  /\ call.step.value = <<EmptyDict>>
  /\ task # None
  /\ IsDone(task)
  /\ GetResult(task).ret = << <<EmptyDict, "c2">> >>

\* C25: when the generator raises TaskFailed, in the constructor or in a
\* process_result that resumes it, the call lets no exception out, the task
\* is done and get_result() returns ({"__ERROR__": {"error": error_type,
\* "message": message, "task_data": data}}, context).
C25_TaskFailedBecomesResult ==
  call.step.op = "raise" =>
    /\ raised = ""
    /\ task # None
    /\ IsDone(task)
    /\ GetResult(task) =
         [raised |-> "",
          ret |-> << <<[__ERROR__ |-> [error |-> call.step.error_type,
                                       message |-> call.step.message,
                                       task_data |-> given.data]],
                       given.context>> >>]

\* The generator raised TaskFailed(message, "bad_input") at its second
\* resume by send().
C25_Witness ==
  /\ call.name = "process_result"
  /\ call.step.op = "raise"
  /\ call.step.error_type = "bad_input"
  /\ task.sends = 2
  /\ given.data = "d2"
  /\ IsDone(task)

\* C26: get_work returns status server_unavailable, and raises nothing,
\* when requests.get raises a connection error; it returns status
\* all_work_complete on HTTP 404; and it raises on every other HTTP error
\* status (400 to 599).
C26_GetWorkOutcomes ==
  /\ wire.error \in ConnectionErrors =>
       /\ reply.raised = ""
       /\ reply.ret = <<[status |-> "server_unavailable"]>>
  /\ (wire.error = "" /\ wire.status_code = 404) =>
       /\ reply.raised = ""
       /\ reply.ret = <<[status |-> "all_work_complete"]>>
  /\ (wire.error = "" /\ wire.status_code \in 400..599
        /\ wire.status_code # 404) =>
       /\ reply.raised = "HTTPError"
       /\ reply.ret = None

\* A client met a connection error, then HTTP 404, then HTTP 400.
C26_Witness ==
  /\ replies = <<"server_unavailable", "all_work_complete", "HTTPError">>
  /\ wire.status_code = 400
  /\ reply.raised = "HTTPError"

\* C31: a completion (of a worker or a tombstone) writes a checkpoint, and
\* sets last_checkpoint_time, exactly when checkpoint_interval seconds or more
\* have passed since last_checkpoint_time, the time of the construction or of
\* the previous checkpoint of a completion; a get_work_batch that tombstones
\* nothing writes none; so in every step that changes the checkpoint file or
\* moves last_checkpoint_time forward the interval had passed.
C31_WrittenWhenDue ==
  /\ \A batch \in CompletionBatches :
       LET s == Complete(Self, batch)
       IN  IF now - last_checkpoint_time >= checkpoint_interval
             THEN /\ s.checkpoint_file = <<JsonDump(s, "all")>>
                  /\ s.last_checkpoint_time = now
             ELSE /\ s.checkpoint_file = checkpoint_file
                  /\ s.last_checkpoint_time = last_checkpoint_time
  /\ \A b \in 1..MaxBatchSize :
       LET s == Get(b).s
       IN  IF s.tombstoned = tombstoned
               \/ now - last_checkpoint_time < checkpoint_interval
             THEN /\ s.checkpoint_file = checkpoint_file
                  /\ s.last_checkpoint_time = last_checkpoint_time
             ELSE /\ s.checkpoint_file # <<>>
                  /\ s.last_checkpoint_time = now

C31_RateLimited ==
  (checkpoint_file' # checkpoint_file
     \/ last_checkpoint_time' > last_checkpoint_time) =>
    /\ now - last_checkpoint_time >= checkpoint_interval
    /\ last_checkpoint_time' = now

C31_Theorem == []C31_WrittenWhenDue /\ [][C31_RateLimited]_vars

\* A checkpoint was written one second ago, the interval being two seconds:
\* the completion of work id 1 writes a line and no checkpoint.
C31_Witness ==
  /\ checkpoint_interval = 2
  /\ last_checkpoint_time = -1
  /\ checkpoint_file # <<>>
  /\ last_processed_work_id = 0
  /\ 1 \in Live(Self)
  /\ LET s == Complete(Self, << <<1, <<"X">> >> >>)
     IN  /\ s.last_processed_work_id = 1
         /\ s.checkpoint_file = checkpoint_file
         /\ s.checkpoint_file[1].last_processed_work_id = 0

\* C32: close() writes a checkpoint whether or not one is due, holding the
\* present last_processed_work_id and offsets, and writes nothing to the
\* output, so that results waiting in pending_write are in neither; a start
\* of the process after close() begins with the same last_processed_work_id
\* and the same output.
C32_CloseThenRestart ==
  pc = "running" =>
    LET closed == WriteCheckpoint(Self)
        again == LoadCheckpoint(Constructed(closed.outfile,
                                            closed.checkpoint_file,
                                            closed.checkpoint_tmp, now),
                                input_file)
    IN  /\ closed.outfile = outfile
        /\ closed.checkpoint_file = <<JsonDump(Self, "all")>>
        /\ again.outfile = outfile
        /\ again.last_processed_work_id = last_processed_work_id
        /\ again.next_work_id = last_processed_work_id + 1
        /\ again.pending_write = EmptyDict

C32_CloseStep ==
  (pc = "running" /\ pc' = "closed") =>
    /\ checkpoint_file' = <<JsonDump(Self, "all")>>
    /\ outfile' = outfile

C32_RestartStep ==
  (pc = "closed" /\ pc' = "running") =>
    /\ last_processed_work_id' = checkpoint_file[1].last_processed_work_id
    /\ outfile' = outfile
    /\ checkpoint_file' = checkpoint_file

C32_Theorem ==
  /\ []C32_CloseThenRestart
  /\ [][C32_CloseStep /\ C32_RestartStep]_vars

\* The process was closed with one of two lines written and started again:
\* it begins after work id 0.
C32_Witness ==
  /\ pc = "running"
  /\ restarts = 1
  /\ CountLines(input_file, 0) = 2
  /\ CountLines(outfile, 0) = 1
  /\ last_processed_work_id = 0
  /\ next_work_id = 1
  /\ checkpoint_file[1].last_processed_work_id = 0

\* The work ids that workers hold.
Held == UNION {{holding[w][i] : i \in DOMAIN holding[w]} : w \in 1..MaxWorkers}

\* C33 (amended): with W workers that each hold at most one uncompleted
\* batch of at most batch_size items, every work id that is in flight (in
\* issued, not in pending_write) is held by a worker, so there are at most
\* W x batch_size of them.
C33_LiveBounded ==
  /\ Live(Self) \subseteq Held
  /\ Cardinality(Live(Self)) <= MaxWorkers * worker_batch_size

\* C33 (as stated): the issued map and pending_write have at most
\* W x batch_size entries each.
C33_MapsBounded ==
  /\ Cardinality(DOMAIN issued) <= MaxWorkers * worker_batch_size
  /\ Cardinality(DOMAIN pending_write) <= MaxWorkers * worker_batch_size

\* Worker 1 holds work id 0; the results of work ids 1 and 2 wait for it in
\* pending_write, and all three are in the issued map.
C33_Witness ==
  /\ holding[1] = <<0>>
  /\ Live(Self) = {0}
  /\ DOMAIN pending_write = {1, 2}
  /\ DOMAIN issued = {0, 1, 2}

\* The reissues of the work ids in ids: each was handed out once as fresh
\* work and handed[w] - 1 times again.
RECURSIVE ReissuesOf(_)
ReissuesOf(ids) ==
  IF ids = {} THEN 0
  ELSE LET w == CHOOSE x \in ids : TRUE
       IN  (handed[w] - 1) + ReissuesOf(ids \ {w})

\* The entries of a batch that are reissues in the present state.
ReissuedIn(batch) == {i \in DOMAIN batch : batch[i][1] < next_work_id}

\* C34: expired_reissues is the number of reissues handed out in this run:
\* a get_work_batch adds the number of reissued items it returns, whatever
\* it issues fresh or tombstones, and a completion adds nothing; so it is
\* the sum of the retry counts the work ids have reached, the retry count of
\* a work id in the issued map being its reissues so far, and that of a
\* tombstoned work id max_retries.
C34_CountsReissues ==
  /\ expired_reissues = ReissuesOf(DOMAIN handed)
  /\ \A w \in DOMAIN issued : issued[w].retry_count = handed[w] - 1
  /\ \A w \in tombstoned : handed[w] - 1 = max_retries
  /\ \A b \in 1..MaxBatchSize :
       LET r == Get(b)
       IN  r.s.expired_reissues =
             expired_reissues + Cardinality(ReissuedIn(r.batch))
  /\ \A batch \in CompletionBatches :
       Complete(Self, batch).expired_reissues = expired_reissues

\* Work id 0 was reissued once and tombstoned, work id 1 was reissued once
\* and is in flight: expired_reissues is 2.
C34_Witness ==
  /\ max_retries = 1
  /\ tombstoned = {0}
  /\ 1 \in Live(Self)
  /\ issued[1].retry_count = 1
  /\ expired_reissues = 2

\* C35: between the operations of a run, work id last_processed_work_id + 1
\* is not in pending_write: it is not issued yet or it is in flight; and no
\* step lowers last_processed_work_id.
C35_HeadNotPending ==
  LET head == last_processed_work_id + 1
  IN  /\ head \notin DOMAIN pending_write
      /\ head >= next_work_id \/ head \in Live(Self)

C35_NeverDecreases == last_processed_work_id' >= last_processed_work_id

C35_Theorem == []C35_HeadNotPending /\ [][C35_NeverDecreases]_vars

\* The result of work id 1 waits in pending_write for work id 0, which is in
\* flight; the completion of work id 0 drains both.
C35_Witness ==
  /\ last_processed_work_id = -1
  /\ 0 \in Live(Self)
  /\ DOMAIN pending_write = {1}
  /\ LET s == Complete(Self, << <<0, <<"X">> >> >>)
     IN  /\ s.last_processed_work_id = 1
         /\ s.pending_write = EmptyDict

\* C36: in every state and for every batch_size, get_work_batch returns None
\* or a list of 1 to batch_size pairs with pairwise different work ids,
\* never an empty list; it returns None exactly when batch_size <= 0, in
\* which case it changes nothing, or when no expired item in flight is below
\* the retry cap and the input is at its end.  The value the last call
\* returned is such a value.
C36_BatchOrNone ==
  /\ \A b \in (-1)..MaxBatchSize :
       LET r == Get(b)
       IN  /\ r.returned # None =>
                LET list == r.returned[1]
                IN  /\ list = r.batch
                    /\ Len(list) >= 1
                    /\ Len(list) <= b
                    /\ \A i, j \in DOMAIN list :
                         i # j => list[i][1] # list[j][1]
           /\ r.returned = None <=>
                \/ b <= 0
                \/ /\ Eligible(Self) = {}
                   /\ ReadLine(input_file, infile_pos) = <<>>
           /\ b <= 0 => r.s = Self
  /\ ret = None \/ Len(ret) \in 1..MaxBatchSize

\* One expired item is in flight and the input is at its end: from
\* get_work_batch(2) a list of one pair, from get_work_batch(0) None.
C36_Witness ==
  /\ Eligible(Self) = {1}
  /\ ReadLine(input_file, infile_pos) = <<>>
  /\ Get(2).returned = << << <<1, issued[1].content>> >> >>
  /\ Get(0).returned = None
  /\ ret # None

\* C37: the output line of a tombstoned work id is its tombstone, and a
\* completion submitted for it afterwards changes nothing; the same holds
\* while the tombstone waits in pending_write: a later completion for the
\* work id is discarded, and the line written for it is the tombstone.
C37_TombstoneIsFinal ==
  /\ \A w \in tombstoned :
       /\ w <= last_processed_work_id
       /\ OutputLines[w + 1] = Tombstone(w, InputLines[w + 1])
       /\ \A r \in Results :
            Observed(Complete(Self, << <<w, r>> >>)) = Observed(Self)
  /\ \A w \in Live(Self) :
       LET tomb == Tombstone(w, issued[w].content)
           s == TombstoneWork(Self, w, issued[w].content, now)
       IN  \A r \in Results :
             LET late == Complete(s, << <<w, r>> >>)
             IN  /\ Observed(late) = Observed(s)
                 /\ \A v \in WorkIds, q \in Results :
                      LET after == Complete(late, << <<v, q>> >>)
                      IN  IF after.last_processed_work_id >= w
                            THEN Lines(after.outfile, 0)[w + 1] = tomb
                            ELSE after.pending_write[w] = tomb

\* Work id 0 was tombstoned and its tombstone is the first line of the
\* output; a result submitted for it now is discarded.
C37_Witness ==
  /\ tombstoned = {0}
  /\ last_processed_work_id >= 0
  /\ IsTombstone(OutputLines[1])
  /\ 1 \in Live(Self)
  /\ Complete(Self, << <<0, <<"X">> >> >>).outfile = outfile

\* C38: a start of the process begins with an empty issued map, an empty
\* pending_write, an empty heap and expired_reissues = 0; in each run a work
\* id is handed out at most max_retries + 1 times, an entry of issued holding
\* the reissues of its id in this run; over all runs a work id is handed out
\* at most max_retries + 1 times for each start of the process.
C38_BoundedPerRun ==
  /\ \A w \in DOMAIN handed : handed[w] <= max_retries + 1
  /\ \A w \in DOMAIN issued : issued[w].retry_count = handed[w] - 1
  /\ \A w \in DOMAIN handed_ever :
       handed_ever[w] <= (max_retries + 1) * (restarts + 1)

C38_RestartForgets ==
  restarts' = restarts + 1 =>
    /\ issued' = EmptyDict
    /\ pending_write' = EmptyDict
    /\ issued_heap' = <<>>
    /\ expired_reissues' = 0

C38_Theorem == []C38_BoundedPerRun /\ [][C38_RestartForgets]_vars

\* With max_retries = 1, work id 0 was handed out twice before the process
\* was killed and once, with retry_count = 0, after it was started again.
C38_Witness ==
  /\ max_retries = 1
  /\ restarts = 1
  /\ 0 \in DOMAIN issued
  /\ issued[0].retry_count = 0
  /\ handed[0] = 1
  /\ handed_ever[0] = 3

\* ------------------------------------------------------------------ C39
\* The state a start leaves when it takes the checkpoint to be
\* (last_processed_work_id = -1, input_offset = 0, output_offset = 0):
\* every line of the output counts as completed and as many input lines
\* are skipped.
StartedFromNothing ==
  /\ pc' = "running"
  /\ last_processed_work_id' = CountLines(outfile, 0) - 1
  /\ next_work_id' = CountLines(outfile, 0)
  /\ input_offset' = 0
  /\ infile_pos' = SkipLines(input_file, 0, CountLines(outfile, 0))
  /\ outfile' = outfile

InvalidJson == checkpoint_file # <<>> /\ checkpoint_file[1].bytes \in DamagedKinds

\* C39: when the checkpoint file exists, is not empty and is not valid
\* JSON, initialization does not fail and behaves as if the checkpoint were
\* (-1, 0, 0): it ends with last_processed_work_id = (number of output
\* lines) - 1 and next_work_id = number of output lines, that many input
\* lines skipped.
C39_InvalidStep ==
  (restarts' = restarts + 1 /\ InvalidJson) => StartedFromNothing

C39_InvalidCheckpointTolerated == [][C39_InvalidStep]_vars

\* The part of C39 that the code does give: a checkpoint whose text is cut
\* short.
C39_CutShortStep ==
  (restarts' = restarts + 1 /\ InvalidJson /\ Decodes(checkpoint_file[1])) =>
    StartedFromNothing

C39_CutShortTolerated == [][C39_CutShortStep]_vars

\* A start over a checkpoint cut short with two lines in the output.
C39_CutShortWitness ==
  /\ pc = "running"
  /\ restarts = 1
  /\ checkpoint_file # <<>>
  /\ checkpoint_file[1].bytes = "part"
  /\ CountLines(outfile, 0) = 2
  /\ last_processed_work_id = 1

\* A start over a checkpoint of bytes that are not text: the constructor
\* has raised.
C39_GarbledWitness ==
  /\ pc = "failed"
  /\ checkpoint_file # <<>>
  /\ checkpoint_file[1].bytes = "garbled"

\* ------------------------------------------------------------------ C40
\* Request a was yielded before request b.
YieldedBefore(a, b) == a[1] < b[1] \/ (a[1] = b[1] /\ a[2] < b[2])

IsSuffix(tail, seq) ==
  /\ Len(tail) <= Len(seq)
  /\ tail = SubSeq(seq, Len(seq) - Len(tail) + 1, Len(seq))

\* The argument _advance_generator sends for the responses collected.
ArgOf(responses) ==
  IF Len(responses) = 1
    THEN [kind |-> "response", items |-> responses]
    ELSE [kind |-> "list", items |-> responses]

\* The queue holds requests in yield order, all of them yielded after the
\* request handed out last; while responses to a yield of k requests are
\* outstanding there is no result, is_done() is false, the responses
\* collected and the ones outstanding are k together, the generator was
\* resumed once for each earlier yield, and the requests of this yield
\* that are still queued are its last ones.
C40_Outstanding ==
  task # None =>
    LET k == Len(task.at_yield.items)
        queue == task.pending_reqs
        mine == SelectSeq(queue, LAMBDA r : r[1] = task.yields - 1)
    IN  /\ \A i, j \in DOMAIN queue : i < j => YieldedBefore(queue[i], queue[j])
        /\ got # None =>
              \A i \in DOMAIN queue : YieldedBefore(got[1], queue[i])
        /\ task.awaiting_responses >= 1 =>
              /\ task.result = None
              /\ ~IsDone(task)
              /\ k >= 1
              /\ task.awaiting_responses + Len(task.collected) = k
              /\ task.sends = task.yields - 1
              /\ IsSuffix(mine, task.at_yield.items)

\* A yield of k requests puts them at the end of the queue in yield order
\* and starts a new count of k.
C40_YieldStep ==
  (call'.step.op = "yield" /\ raised' = "" /\ task' # None) =>
    /\ task'.pending_reqs =
         (IF task = None THEN <<>> ELSE task.pending_reqs) \o call'.step.items
    /\ task'.awaiting_responses = Len(call'.step.items)
    /\ task'.collected = <<>>
    /\ task'.result = None

\* get_next_request hands out the head of the queue and removes it.
C40_HandOutStep ==
  call'.name = "get_next_request" =>
    IF task.pending_reqs = <<>>
      THEN got' = None /\ task' = task
      ELSE /\ got' = <<Head(task.pending_reqs)>>
           /\ task' = [task EXCEPT !.pending_reqs = Tail(@)]

\* process_result resumes the generator, once, exactly when its response
\* is the last one outstanding and no result is set; the generator then
\* receives the k responses in arrival order, bare when k = 1;
\* otherwise the response is collected and nothing else changes.
C40_ResponseStep ==
  call'.name = "process_result" =>
    LET resumed == task'.sends = task.sends + 1
        k == Len(task.at_yield.items)
    IN  /\ task'.sends \in {task.sends, task.sends + 1}
        /\ resumed <=> (task.awaiting_responses = 1 /\ task.result = None)
        /\ resumed =>
              \E response \in Responses :
                LET all == Append(task.collected, response)
                IN  /\ sent' = <<ArgOf(all)>>
                    /\ Len(all) = k
                    /\ sent'[1].kind = "response" <=> k = 1
        /\ ~resumed =>
              /\ \E response \in Responses :
                    task' = [task EXCEPT !.collected = Append(@, response),
                                         !.awaiting_responses = @ - 1]
              /\ sent' = sent
              /\ call'.step = NoStep
        /\ task.result # None => task'.result = task.result

\* C40: after the generator yields k >= 1 requests, get_next_request hands
\* them out once each in yield order; the generator is resumed exactly
\* once, when exactly k process_result calls have arrived, with the k
\* responses in arrival order (a bare Response when k = 1, also for a
\* one-element list; a list otherwise); until then is_done() is false; once
\* a result is set, process_result neither resumes the generator nor
\* changes the result.
C40_Theorem ==
  /\ []C40_Outstanding
  /\ [][C40_YieldStep /\ C40_HandOutStep /\ C40_ResponseStep]_vars

\* The generator yielded a list of two requests, both were handed out in
\* yield order, the responses arrived as p2, p1, and the generator,
\* resumed once with [p2, p1], returned a result.
C40_Witness ==
  /\ task # None
  /\ task.sends = 1
  /\ task.yields = 1
  /\ got = <<Req(0, 2)>>
  /\ sent = <<[kind |-> "list", items |-> <<"p2", "p1">>]>>
  /\ IsDone(task)
  /\ call.name = "process_result"
====
